---------------------------- MODULE Spec2Model ----------------------------
(*************************************************************************)
(* id3cli: editing ID3v2.4 tags of MP3 files.                            *)
(*                                                                       *)
(* The functions of src/src/lib.rs (apply_metadata, remove_tags, ...)    *)
(* and the command line flow of src/src/main.rs are modelled from the    *)
(* source.  The tag container they call (the id3 crate's Tag) is not     *)
(* part of the source tree; it is modelled from section 4.3 of the       *)
(* specification: an ordered sequence of frames with get / set_text /    *)
(* remove / add_frame.                                                   *)
(*                                                                       *)
(* Text is a sequence of one-character strings, so that joining,         *)
(* lower-casing, formatting and parsing are computed, not assumed.       *)
(* An Option is a sequence of length 0 (None) or 1 (Some).               *)
(*************************************************************************)
EXTENDS Integers, Sequences, FiniteSets, TLC

VARIABLES
    tag,      \* the in-memory Tag: a sequence of frames
    pre,      \* the Tag as it was when the last call started
    op,       \* the name of the last call
    args,     \* the arguments of the last call
    ret,      \* the value the last call returned
    nops,     \* number of calls made so far
    file,     \* the MP3 file on disk
    latest,   \* history: per field, what the invocations so far asked for
    stderr,   \* what the last invocation wrote to the standard error stream
    steps,    \* the calls the last invocation made, in order, each with its result
    reader,   \* the tag reader at work on a buffer: its phase, offset and frames
    writer    \* the tag writer at work on a file: its phase, buffer and the bytes on disk

vars == <<tag, pre, op, args, ret, nops, file, latest, stderr, steps, reader, writer>>

\* No read and no write under way.
NoReader == [phase |-> "Idle"]

NoWriter == [phase |-> "Idle"]

-----------------------------------------------------------------------------
(* Option values *)

None == <<>>

Some(v) == <<v>>

IsSome(o) == o # <<>>

Unwrap(o) == o[1]

-----------------------------------------------------------------------------
(* Text: numbers to decimal text and back (Rust's Display / str::parse) *)

DigitChars == <<"0", "1", "2", "3", "4", "5", "6", "7", "8", "9">>

IsDigit(c) == \E d \in 1..10 : DigitChars[d] = c

DigitValue(c) == (CHOOSE d \in 1..10 : DigitChars[d] = c) - 1

RECURSIVE FormatNat(_)
FormatNat(n) ==
    IF n < 10 THEN <<DigitChars[n + 1]>>
    ELSE FormatNat(n \div 10) \o <<DigitChars[(n % 10) + 1]>>

FormatInt(n) == IF n < 0 THEN <<"-">> \o FormatNat(0 - n) ELSE FormatNat(n)

AllDigits(s) == Len(s) > 0 /\ \A i \in 1..Len(s) : IsDigit(s[i])

RECURSIVE ParseNat(_)
ParseNat(s) ==
    IF Len(s) = 1 THEN DigitValue(s[1])
    ELSE 10 * ParseNat(SubSeq(s, 1, Len(s) - 1)) + DigitValue(s[Len(s)])

\* str::parse::<i32>(): an optional sign, then digits only.
ParseInt(s) ==
    IF AllDigits(s) THEN Some(ParseNat(s))
    ELSE IF Len(s) > 1 /\ s[1] = "-" /\ AllDigits(Tail(s)) THEN Some(0 - ParseNat(Tail(s)))
    ELSE None

\* str::parse::<u32>(): digits only.
ParseUnsigned(s) == IF AllDigits(s) THEN Some(ParseNat(s)) ELSE None

\* n written with at least w digits, zero padded on the left.
RECURSIVE PadNat(_, _)
PadNat(n, w) ==
    IF Len(FormatNat(n)) >= w THEN FormatNat(n) ELSE <<"0">> \o PadNat(n, w - 1)

-----------------------------------------------------------------------------
(* Timestamp: the recording date, "YYYY", "YYYY-MM" or "YYYY-MM-DD" *)

\* date.parse(): Ok(timestamp) or Err.
ParseTimestamp(s) ==
    IF Len(s) = 4 /\ AllDigits(s)
    THEN Some([year |-> ParseNat(s), month |-> None, day |-> None])
    ELSE IF Len(s) = 7 /\ AllDigits(SubSeq(s, 1, 4)) /\ s[5] = "-"
            /\ AllDigits(SubSeq(s, 6, 7))
    THEN Some([year |-> ParseNat(SubSeq(s, 1, 4)),
               month |-> Some(ParseNat(SubSeq(s, 6, 7))), day |-> None])
    ELSE IF Len(s) = 10 /\ AllDigits(SubSeq(s, 1, 4)) /\ s[5] = "-"
            /\ AllDigits(SubSeq(s, 6, 7)) /\ s[8] = "-" /\ AllDigits(SubSeq(s, 9, 10))
    THEN Some([year |-> ParseNat(SubSeq(s, 1, 4)),
               month |-> Some(ParseNat(SubSeq(s, 6, 7))),
               day |-> Some(ParseNat(SubSeq(s, 9, 10)))])
    ELSE None

\* Timestamp::to_string()
FormatTimestamp(t) ==
    PadNat(t.year, 4)
    \o (IF IsSome(t.month) THEN <<"-">> \o PadNat(Unwrap(t.month), 2) ELSE <<>>)
    \o (IF IsSome(t.month) /\ IsSome(t.day) THEN <<"-">> \o PadNat(Unwrap(t.day), 2) ELSE <<>>)

-----------------------------------------------------------------------------
(* Frames and their content *)

TextFrame(id, text) == [id |-> id, content |-> [kind |-> "Text", text |-> text]]

LinkFrame(id, url) == [id |-> id, content |-> [kind |-> "Link", url |-> url]]

LyricsFrame(lang, description, text) ==
    [id |-> "USLT",
     content |-> [kind |-> "Lyrics", lang |-> lang, description |-> description,
                  text |-> text]]

PictureFrame(picture) ==
    [id |-> "APIC",
     content |-> [kind |-> "Picture", mime_type |-> picture.mime_type,
                  picture_type |-> picture.picture_type,
                  description |-> picture.description, data |-> picture.data]]

\* Content::text(): the text of a Text content, None for any other content.
ContentText(c) == IF c.kind = "Text" THEN Some(c.text) ELSE None

-----------------------------------------------------------------------------
(* The tag container: an ordered sequence of frames *)

\* Tag::new()
NewTag == <<>>

HasFrame(t, id) == \E i \in 1..Len(t) : t[i].id = id

FirstIndex(t, id) == CHOOSE i \in 1..Len(t) : t[i].id = id /\ \A j \in 1..(i - 1) : t[j].id # id

\* get(identifier): the first frame with the identifier, in insertion order.
get(t, id) == IF HasFrame(t, id) THEN Some(t[FirstIndex(t, id)]) ELSE None

\* get_all(identifier): every frame with the identifier, in insertion order.
get_all(t, id) == SelectSeq(t, LAMBDA f : f.id = id)

\* add_frame(frame): always appends.
add_frame(t, f) == Append(t, f)

\* set_text(identifier, value): replaces the first frame with the identifier
\* where it stands, else appends a new frame.
set_text(t, id, text) ==
    IF HasFrame(t, id)
    THEN [t EXCEPT ![FirstIndex(t, id)] = TextFrame(id, text)]
    ELSE Append(t, TextFrame(id, text))

\* remove(identifier): removes every frame with the identifier.
remove(t, id) == SelectSeq(t, LAMBDA f : f.id # id)

\* The text of the first frame with the identifier, when it is a Text frame.
text_for(t, id) == IF HasFrame(t, id) THEN ContentText(Unwrap(get(t, id)).content) ELSE None

(* Convenience accessors: named-identifier sugar over get / set_text / remove *)

title(t) == text_for(t, "TIT2")
set_title(t, v) == set_text(t, "TIT2", v)
remove_title(t) == remove(t, "TIT2")

artist(t) == text_for(t, "TPE1")
set_artist(t, v) == set_text(t, "TPE1", v)
remove_artist(t) == remove(t, "TPE1")

album(t) == text_for(t, "TALB")
set_album(t, v) == set_text(t, "TALB", v)
remove_album(t) == remove(t, "TALB")

genre(t) == text_for(t, "TCON")
set_genre(t, v) == set_text(t, "TCON", v)
remove_genre(t) == remove(t, "TCON")

album_artist(t) == text_for(t, "TPE2")
set_album_artist(t, v) == set_text(t, "TPE2", v)
remove_album_artist(t) == remove(t, "TPE2")

\* The numeric accessors store the number as decimal text and parse it back.
NumberFor(t, id, parse(_)) ==
    LET x == text_for(t, id) IN IF IsSome(x) THEN parse(Unwrap(x)) ELSE None

year(t) == NumberFor(t, "TYER", ParseInt)
set_year(t, y) == set_text(t, "TYER", FormatInt(y))
remove_year(t) == remove(t, "TYER")

track(t) == NumberFor(t, "TRCK", ParseUnsigned)
set_track(t, n) == set_text(t, "TRCK", FormatInt(n))
remove_track(t) == remove(t, "TRCK")

disc(t) == NumberFor(t, "TPOS", ParseUnsigned)
set_disc(t, n) == set_text(t, "TPOS", FormatInt(n))
remove_disc(t) == remove(t, "TPOS")

date_recorded(t) == NumberFor(t, "TDRC", ParseTimestamp)
set_date_recorded(t, ts) == set_text(t, "TDRC", FormatTimestamp(ts))
remove_date_recorded(t) == remove(t, "TDRC")

\* pictures(): the pictures of the tag, in insertion order.
pictures(t) == SelectSeq(t, LAMBDA f : f.content.kind = "Picture")

\* remove_all_pictures()
remove_all_pictures(t) == SelectSeq(t, LAMBDA f : f.content.kind # "Picture")

-----------------------------------------------------------------------------
(* lib.rs: apply_metadata *)

\* artists.join("; ")
RECURSIVE Join(_, _)
Join(list, sep) ==
    IF Len(list) = 0 THEN <<>>
    ELSE IF Len(list) = 1 THEN list[1]
    ELSE list[1] \o sep \o Join(Tail(list), sep)

\* Another separator.
ArtistSeparator_Comma == <<",", " ">>

ArtistSeparator == <<";", " ">>

\* Each step takes and returns [tag, changed]: the tag being edited and the
\* local `changed` of apply_metadata.

ApplyTitle(s, a) ==
    IF IsSome(a.title)
    THEN [tag |-> set_title(s.tag, Unwrap(a.title)), changed |-> TRUE]
    ELSE s

\* ApplyArtists without the is_empty test.
ApplyArtists_Unguarded(s, a) ==
    [tag |-> set_artist(s.tag, Join(a.artists, <<";", " ">>)), changed |-> TRUE]

ApplyArtists(s, a) ==
    IF Len(a.artists) # 0
    THEN [tag |-> set_artist(s.tag, Join(a.artists, ArtistSeparator)), changed |-> TRUE]
    ELSE s

ApplyAlbum(s, a) ==
    IF IsSome(a.album)
    THEN [tag |-> set_album(s.tag, Unwrap(a.album)), changed |-> TRUE]
    ELSE s

ApplyYear(s, a) ==
    IF IsSome(a.year)
    THEN [tag |-> set_year(s.tag, Unwrap(a.year)), changed |-> TRUE]
    ELSE s

ApplyGenre(s, a) ==
    IF IsSome(a.genre)
    THEN [tag |-> set_genre(s.tag, Unwrap(a.genre)), changed |-> TRUE]
    ELSE s

ApplyTrack(s, a) ==
    IF IsSome(a.track)
    THEN [tag |-> set_track(s.tag, Unwrap(a.track)), changed |-> TRUE]
    ELSE s

\* ApplySeason storing the season in the track field.
ApplySeason_AsTrack(s, a) ==
    IF IsSome(a.season)
    THEN [tag |-> set_track(s.tag, Unwrap(a.season)), changed |-> TRUE]
    ELSE s

ApplySeason(s, a) ==
    IF IsSome(a.season)
    THEN [tag |-> set_disc(s.tag, Unwrap(a.season)), changed |-> TRUE]
    ELSE s

\* ApplyDate counting a date that does not parse as a change.
ApplyDate_AlwaysChanged(s, a) ==
    IF IsSome(a.date)
    THEN [tag |-> IF IsSome(ParseTimestamp(Unwrap(a.date)))
                  THEN set_date_recorded(s.tag, Unwrap(ParseTimestamp(Unwrap(a.date))))
                  ELSE s.tag,
          changed |-> TRUE]
    ELSE s

ApplyDate(s, a) ==
    IF IsSome(a.date) /\ IsSome(ParseTimestamp(Unwrap(a.date)))
    THEN [tag |-> set_date_recorded(s.tag, Unwrap(ParseTimestamp(Unwrap(a.date)))),
          changed |-> TRUE]
    ELSE s

\* ApplyCopyright adding a frame instead of setting the text.
ApplyCopyright_AddFrame(s, a) ==
    IF IsSome(a.copyright)
    THEN [tag |-> add_frame(s.tag, TextFrame("TCOP", Unwrap(a.copyright))), changed |-> TRUE]
    ELSE s

ApplyCopyright(s, a) ==
    IF IsSome(a.copyright)
    THEN [tag |-> set_text(s.tag, "TCOP", Unwrap(a.copyright)), changed |-> TRUE]
    ELSE s

ApplyComposer(s, a) ==
    IF IsSome(a.composer)
    THEN [tag |-> set_text(s.tag, "TCOM", Unwrap(a.composer)), changed |-> TRUE]
    ELSE s

ApplySubtitle(s, a) ==
    IF IsSome(a.subtitle)
    THEN [tag |-> set_text(s.tag, "TIT3", Unwrap(a.subtitle)), changed |-> TRUE]
    ELSE s

ApplyOriginalArtist(s, a) ==
    IF IsSome(a.original_artist)
    THEN [tag |-> set_text(s.tag, "TOPE", Unwrap(a.original_artist)), changed |-> TRUE]
    ELSE s

ApplyAlbumArtist(s, a) ==
    IF IsSome(a.album_artist)
    THEN [tag |-> set_album_artist(s.tag, Unwrap(a.album_artist)), changed |-> TRUE]
    ELSE s

\* apply_metadata(tag, title, artists, ..., album_artist): the tag afterwards
\* and the value returned.
apply_metadata(t, a) ==
    LET s0 == [tag |-> t, changed |-> FALSE]
        s1 == ApplyTitle(s0, a)
        s2 == ApplyArtists(s1, a)
        s3 == ApplyAlbum(s2, a)
        s4 == ApplyYear(s3, a)
        s5 == ApplyGenre(s4, a)
        s6 == ApplyTrack(s5, a)
        s7 == ApplySeason(s6, a)
        s8 == ApplyDate(s7, a)
        s9 == ApplyCopyright(s8, a)
        s10 == ApplyComposer(s9, a)
        s11 == ApplySubtitle(s10, a)
        s12 == ApplyOriginalArtist(s11, a)
        s13 == ApplyAlbumArtist(s12, a)
        \* (tag, changed) after each if let, in program order
        states == <<s1, s2, s3, s4, s5, s6, s7, s8, s9, s10, s11, s12, s13>>
    IN states[13]

-----------------------------------------------------------------------------
(* lib.rs: add_lyrics, add_url, add_apple_metadata *)

LangSpa == <<"s", "p", "a">>

\* add_lyrics keeping the first line of the text only.
add_lyrics_FirstLine(t, text) ==
    LET cut == CHOOSE n \in 0..Len(text) :
                   /\ \A i \in 1..n : text[i] # "\n"
                   /\ n = Len(text) \/ text[n + 1] = "\n"
    IN [tag |-> add_frame(t, LyricsFrame(LangSpa, <<>>, SubSeq(text, 1, cut))),
        ret |-> TRUE]

\* add_lyrics(tag, text): [tag, ret]
add_lyrics(t, text) ==
    [tag |-> add_frame(t, LyricsFrame(LangSpa, <<>>, text)), ret |-> TRUE]

\* add_url storing the URL as the text of the frame.
add_url_AsText(t, url) ==
    [tag |-> add_frame(t, TextFrame("WOAR", url)), ret |-> TRUE]

\* add_url(tag, url): [tag, ret]
add_url(t, url) ==
    [tag |-> add_frame(t, LinkFrame("WOAR", url)), ret |-> TRUE]

\* add_apple_metadata clearing the compilation flag when compilation is false.
AppleCompilation_Clearing(s, a) ==
    IF a.compilation
    THEN [tag |-> set_text(s.tag, "TCMP", <<"1">>), changed |-> TRUE]
    ELSE [tag |-> remove(s.tag, "TCMP"), changed |-> s.changed]

AppleCompilation(s, a) ==
    IF a.compilation
    THEN [tag |-> set_text(s.tag, "TCMP", <<"1">>), changed |-> TRUE]
    ELSE s

AppleAlbumSort(s, a) ==
    IF IsSome(a.album_sort)
    THEN [tag |-> set_text(s.tag, "TSOA", Unwrap(a.album_sort)), changed |-> TRUE]
    ELSE s

AppleArtistSort(s, a) ==
    IF IsSome(a.artist_sort)
    THEN [tag |-> set_text(s.tag, "TSOP", Unwrap(a.artist_sort)), changed |-> TRUE]
    ELSE s

AppleTitleSort(s, a) ==
    IF IsSome(a.title_sort)
    THEN [tag |-> set_text(s.tag, "TSOT", Unwrap(a.title_sort)), changed |-> TRUE]
    ELSE s

\* add_apple_metadata(tag, compilation, album_sort, artist_sort, title_sort)
add_apple_metadata(t, a) ==
    AppleTitleSort(AppleArtistSort(AppleAlbumSort(
        AppleCompilation([tag |-> t, changed |-> FALSE], a), a), a), a)

-----------------------------------------------------------------------------
(* lib.rs: pictures *)

CoverDescription == <<"C", "o", "v", "e", "r">>

\* create_picture_frame stamping the picture as of no particular type.
create_picture_frame_Other(data, mime_type) ==
    [mime_type |-> mime_type, picture_type |-> "Other",
     description |-> CoverDescription, data |-> data]

create_picture_frame(data, mime_type) ==
    [mime_type |-> mime_type, picture_type |-> "CoverFront",
     description |-> CoverDescription, data |-> data]

\* Upper-case letters and their lower-case forms (str::to_lowercase).
UpperChars ==
    <<"A", "B", "C", "D", "E", "F", "G", "H", "I", "J", "K", "L", "M", "N", "O", "P",
      "Q", "R", "S", "T", "U", "V", "W", "X", "Y", "Z", "Á", "É", "Í", "Ó", "Ú", "Ñ">>

LowerChars ==
    <<"a", "b", "c", "d", "e", "f", "g", "h", "i", "j", "k", "l", "m", "n", "o", "p",
      "q", "r", "s", "t", "u", "v", "w", "x", "y", "z", "á", "é", "í", "ó", "ú", "ñ">>

LowerChar(c) ==
    IF \E i \in 1..Len(UpperChars) : UpperChars[i] = c
    THEN LowerChars[CHOOSE i \in 1..Len(UpperChars) : UpperChars[i] = c]
    ELSE c

\* to_lowercase left out.
to_lowercase_Identity(s) == s

to_lowercase(s) == [i \in 1..Len(s) |-> LowerChar(s[i])]

LastIndexOf(s, c) ==
    IF \E i \in 1..Len(s) : s[i] = c
    THEN CHOOSE i \in 1..Len(s) : s[i] = c /\ \A j \in (i + 1)..Len(s) : s[j] # c
    ELSE 0

\* Path::file_name(): what follows the last "/".
file_name(path) == SubSeq(path, LastIndexOf(path, "/") + 1, Len(path))

\* Path::extension() taking what follows the first "." of the whole path.
extension_AfterFirstDot(path) ==
    IF \A i \in 1..Len(path) : path[i] # "."
    THEN None
    ELSE LET dot == CHOOSE i \in 1..Len(path) :
                        path[i] = "." /\ \A j \in 1..(i - 1) : path[j] # "."
         IN Some(SubSeq(path, dot + 1, Len(path)))

\* Path::extension(): what follows the last "." of the file name; None when the
\* file name has no "." or only a leading one.
extension(path) ==
    LET name == file_name(path)
        dot == LastIndexOf(name, ".")
    IN IF dot <= 1 THEN None ELSE Some(SubSeq(name, dot + 1, Len(name)))

Ext_jpg == <<"j", "p", "g">>

Ext_jpeg == <<"j", "p", "e", "g">>

Ext_png == <<"p", "n", "g">>

Ext_webp == <<"w", "e", "b", "p">>

\* detect_mime_type(path): [ok, mime]
detect_mime_type(path) ==
    IF ~IsSome(extension(path)) THEN [ok |-> FALSE, mime |-> ""]
    ELSE LET e == to_lowercase(Unwrap(extension(path)))
         IN IF e \in {Ext_jpg, Ext_jpeg} THEN [ok |-> TRUE, mime |-> "image/jpeg"]
            ELSE IF e = Ext_png THEN [ok |-> TRUE, mime |-> "image/png"]
            ELSE IF e = Ext_webp THEN [ok |-> TRUE, mime |-> "image/webp"]
            ELSE [ok |-> FALSE, mime |-> ""]

\* add_cover_art removing the pictures the tag holds before it adds its own.
add_cover_art_Replacing(t, cover_path, cover_data) ==
    LET m == detect_mime_type(cover_path)
    IN IF ~m.ok THEN [tag |-> t, ok |-> FALSE]
       ELSE [tag |-> add_frame(remove_all_pictures(t),
                               PictureFrame(create_picture_frame(cover_data, m.mime))),
             ok |-> TRUE]

\* add_cover_art adding the picture before it knows whether the extension is supported.
add_cover_art_AddingFirst(t, cover_path, cover_data) ==
    LET m == detect_mime_type(cover_path)
    IN [tag |-> add_frame(t, PictureFrame(create_picture_frame(cover_data, m.mime))),
        ok |-> m.ok]

\* add_cover_art(tag, cover_path, cover_data): [tag, ok]
add_cover_art(t, cover_path, cover_data) ==
    LET m == detect_mime_type(cover_path)
    IN IF ~m.ok THEN [tag |-> t, ok |-> FALSE]
       ELSE [tag |-> add_frame(t, PictureFrame(create_picture_frame(cover_data, m.mime))),
             ok |-> TRUE]

-----------------------------------------------------------------------------
(* The names remove_tags matches, and other names a caller may pass *)

Lit_title == <<"t", "i", "t", "l", "e">>

Lit_tituloAcc == <<"t", "í", "t", "u", "l", "o">>

Lit_artist == <<"a", "r", "t", "i", "s", "t">>

Lit_artista == <<"a", "r", "t", "i", "s", "t", "a">>

Lit_album == <<"a", "l", "b", "u", "m">>

Lit_albumAcc == <<"á", "l", "b", "u", "m">>

Lit_year == <<"y", "e", "a", "r">>

Lit_anoAcc == <<"a", "ñ", "o">>

Lit_genre == <<"g", "e", "n", "r", "e">>

Lit_generoAcc == <<"g", "é", "n", "e", "r", "o">>

Lit_genero == <<"g", "e", "n", "e", "r", "o">>

Lit_track == <<"t", "r", "a", "c", "k">>

Lit_pista == <<"p", "i", "s", "t", "a">>

Lit_season == <<"s", "e", "a", "s", "o", "n">>

Lit_temporada == <<"t", "e", "m", "p", "o", "r", "a", "d", "a">>

Lit_date == <<"d", "a", "t", "e">>

Lit_fecha == <<"f", "e", "c", "h", "a">>

Lit_copyright == <<"c", "o", "p", "y", "r", "i", "g", "h", "t">>

Lit_composer == <<"c", "o", "m", "p", "o", "s", "e", "r">>

Lit_compositor == <<"c", "o", "m", "p", "o", "s", "i", "t", "o", "r">>

Lit_subtitle == <<"s", "u", "b", "t", "i", "t", "l", "e">>

Lit_subtituloAcc == <<"s", "u", "b", "t", "í", "t", "u", "l", "o">>

Lit_subtitulo == <<"s", "u", "b", "t", "i", "t", "u", "l", "o">>

Lit_description == <<"d", "e", "s", "c", "r", "i", "p", "t", "i", "o", "n">>

Lit_descripcionAcc == <<"d", "e", "s", "c", "r", "i", "p", "c", "i", "ó", "n">>

Lit_descripcion == <<"d", "e", "s", "c", "r", "i", "p", "c", "i", "o", "n">>

Lit_original_artist == <<"o", "r", "i", "g", "i", "n", "a", "l", "_", "a", "r", "t", "i", "s", "t">>

Lit_original_artistHyp == <<"o", "r", "i", "g", "i", "n", "a", "l", "-", "a", "r", "t", "i", "s", "t">>

Lit_artista_original == <<"a", "r", "t", "i", "s", "t", "a", "_", "o", "r", "i", "g", "i", "n", "a", "l">>

Lit_artista_originalHyp == <<"a", "r", "t", "i", "s", "t", "a", "-", "o", "r", "i", "g", "i", "n", "a", "l">>

Lit_album_artist == <<"a", "l", "b", "u", "m", "_", "a", "r", "t", "i", "s", "t">>

Lit_album_artistHyp == <<"a", "l", "b", "u", "m", "-", "a", "r", "t", "i", "s", "t">>

Lit_artista_album == <<"a", "r", "t", "i", "s", "t", "a", "_", "a", "l", "b", "u", "m">>

Lit_artista_albumHyp == <<"a", "r", "t", "i", "s", "t", "a", "-", "a", "l", "b", "u", "m">>

Lit_cover == <<"c", "o", "v", "e", "r">>

Lit_caratulaAcc == <<"c", "a", "r", "á", "t", "u", "l", "a">>

Lit_caratula == <<"c", "a", "r", "a", "t", "u", "l", "a">>

Lit_lyrics == <<"l", "y", "r", "i", "c", "s">>

Lit_letra == <<"l", "e", "t", "r", "a">>

Lit_url == <<"u", "r", "l">>

Lit_compilation == <<"c", "o", "m", "p", "i", "l", "a", "t", "i", "o", "n">>

Lit_compilacionAcc == <<"c", "o", "m", "p", "i", "l", "a", "c", "i", "ó", "n">>

Lit_compilacion == <<"c", "o", "m", "p", "i", "l", "a", "c", "i", "o", "n">>

Lit_album_sort == <<"a", "l", "b", "u", "m", "_", "s", "o", "r", "t">>

Lit_album_sortHyp == <<"a", "l", "b", "u", "m", "-", "s", "o", "r", "t">>

Lit_orden_album == <<"o", "r", "d", "e", "n", "_", "a", "l", "b", "u", "m">>

Lit_orden_albumHyp == <<"o", "r", "d", "e", "n", "-", "a", "l", "b", "u", "m">>

Lit_artist_sort == <<"a", "r", "t", "i", "s", "t", "_", "s", "o", "r", "t">>

Lit_artist_sortHyp == <<"a", "r", "t", "i", "s", "t", "-", "s", "o", "r", "t">>

Lit_orden_artista == <<"o", "r", "d", "e", "n", "_", "a", "r", "t", "i", "s", "t", "a">>

Lit_orden_artistaHyp == <<"o", "r", "d", "e", "n", "-", "a", "r", "t", "i", "s", "t", "a">>

Lit_title_sort == <<"t", "i", "t", "l", "e", "_", "s", "o", "r", "t">>

Lit_title_sortHyp == <<"t", "i", "t", "l", "e", "-", "s", "o", "r", "t">>

Lit_orden_titulo == <<"o", "r", "d", "e", "n", "_", "t", "i", "t", "u", "l", "o">>

Lit_orden_tituloHyp == <<"o", "r", "d", "e", "n", "-", "t", "i", "t", "u", "l", "o">>

Lit_TITLE == <<"T", "I", "T", "L", "E">>

Lit_TituloAcc == <<"T", "í", "t", "u", "l", "o">>

Lit_TITULOAcc == <<"T", "Í", "T", "U", "L", "O">>

Lit_ANOAcc == <<"A", "Ñ", "O">>

Lit_CaratulaAcc == <<"C", "a", "r", "á", "t", "u", "l", "a">>

Lit_LYRICS == <<"L", "Y", "R", "I", "C", "S">>

Lit_Url == <<"U", "r", "l">>

Lit_Orden_AlbumHyp == <<"O", "r", "d", "e", "n", "-", "A", "l", "b", "u", "m">>

Lit_COMPILACIONAcc == <<"C", "O", "M", "P", "I", "L", "A", "C", "I", "Ó", "N">>

Lit_invalid_tag == <<"i", "n", "v", "a", "l", "i", "d", "_", "t", "a", "g">>

Lit_titulo == <<"t", "i", "t", "u", "l", "o">>

Lit_ano == <<"a", "n", "o">>

Lit_tit == <<"t", "i", "t">>

Lit_titles == <<"t", "i", "t", "l", "e", "s">>

-----------------------------------------------------------------------------
(* lib.rs: remove_tags *)

\* remove_tag with the "date" arm removing the year frame as well.
remove_tag_DateDropsYear(t, tag_name) ==
    LET n == to_lowercase(tag_name)
    IN
    IF n \in {Lit_title, Lit_tituloAcc}
        THEN [tag |-> remove_title(t), removed |-> TRUE]
    ELSE IF n \in {Lit_artist, Lit_artista}
        THEN [tag |-> remove_artist(t), removed |-> TRUE]
    ELSE IF n \in {Lit_album, Lit_albumAcc}
        THEN [tag |-> remove_album(t), removed |-> TRUE]
    ELSE IF n \in {Lit_year, Lit_anoAcc}
        THEN [tag |-> remove_year(t), removed |-> TRUE]
    ELSE IF n \in {Lit_genre, Lit_generoAcc, Lit_genero}
        THEN [tag |-> remove_genre(t), removed |-> TRUE]
    ELSE IF n \in {Lit_track, Lit_pista}
        THEN [tag |-> remove_track(t), removed |-> TRUE]
    ELSE IF n \in {Lit_season, Lit_temporada}
        THEN [tag |-> remove_disc(t), removed |-> TRUE]
    ELSE IF n \in {Lit_date, Lit_fecha}
        THEN [tag |-> remove_date_recorded(remove_year(t)), removed |-> TRUE]
    ELSE IF n \in {Lit_copyright}
        THEN [tag |-> remove(t, "TCOP"), removed |-> TRUE]
    ELSE IF n \in {Lit_composer, Lit_compositor}
        THEN [tag |-> remove(t, "TCOM"), removed |-> TRUE]
    ELSE IF n \in {Lit_subtitle, Lit_subtituloAcc, Lit_subtitulo, Lit_description, Lit_descripcionAcc, Lit_descripcion}
        THEN [tag |-> remove(t, "TIT3"), removed |-> TRUE]
    ELSE IF n \in {Lit_original_artist, Lit_original_artistHyp, Lit_artista_original, Lit_artista_originalHyp}
        THEN [tag |-> remove(t, "TOPE"), removed |-> TRUE]
    ELSE IF n \in {Lit_album_artist, Lit_album_artistHyp, Lit_artista_album, Lit_artista_albumHyp}
        THEN [tag |-> remove_album_artist(t), removed |-> TRUE]
    ELSE IF n \in {Lit_cover, Lit_caratulaAcc, Lit_caratula}
        THEN [tag |-> remove_all_pictures(t), removed |-> TRUE]
    ELSE IF n \in {Lit_lyrics, Lit_letra}
        THEN [tag |-> remove(t, "USLT"), removed |-> TRUE]
    ELSE IF n \in {Lit_url}
        THEN [tag |-> remove(t, "WOAR"), removed |-> TRUE]
    ELSE IF n \in {Lit_compilation, Lit_compilacionAcc, Lit_compilacion}
        THEN [tag |-> remove(t, "TCMP"), removed |-> TRUE]
    ELSE IF n \in {Lit_album_sort, Lit_album_sortHyp, Lit_orden_album, Lit_orden_albumHyp}
        THEN [tag |-> remove(t, "TSOA"), removed |-> TRUE]
    ELSE IF n \in {Lit_artist_sort, Lit_artist_sortHyp, Lit_orden_artista, Lit_orden_artistaHyp}
        THEN [tag |-> remove(t, "TSOP"), removed |-> TRUE]
    ELSE IF n \in {Lit_title_sort, Lit_title_sortHyp, Lit_orden_titulo, Lit_orden_tituloHyp}
        THEN [tag |-> remove(t, "TSOT"), removed |-> TRUE]
    ELSE [tag |-> t, removed |-> FALSE]

\* One iteration of the loop of remove_tags: the match on the lower-cased name.
\* [tag, removed]: the tag afterwards and the local `removed`.
remove_tag(t, tag_name) ==
    LET n == to_lowercase(tag_name)
    IN
    IF n \in {Lit_title, Lit_tituloAcc}
        THEN [tag |-> remove_title(t), removed |-> TRUE]
    ELSE IF n \in {Lit_artist, Lit_artista}
        THEN [tag |-> remove_artist(t), removed |-> TRUE]
    ELSE IF n \in {Lit_album, Lit_albumAcc}
        THEN [tag |-> remove_album(t), removed |-> TRUE]
    ELSE IF n \in {Lit_year, Lit_anoAcc}
        THEN [tag |-> remove_year(t), removed |-> TRUE]
    ELSE IF n \in {Lit_genre, Lit_generoAcc, Lit_genero}
        THEN [tag |-> remove_genre(t), removed |-> TRUE]
    ELSE IF n \in {Lit_track, Lit_pista}
        THEN [tag |-> remove_track(t), removed |-> TRUE]
    ELSE IF n \in {Lit_season, Lit_temporada}
        THEN [tag |-> remove_disc(t), removed |-> TRUE]
    ELSE IF n \in {Lit_date, Lit_fecha}
        THEN [tag |-> remove_date_recorded(t), removed |-> TRUE]
    ELSE IF n \in {Lit_copyright}
        THEN [tag |-> remove(t, "TCOP"), removed |-> TRUE]
    ELSE IF n \in {Lit_composer, Lit_compositor}
        THEN [tag |-> remove(t, "TCOM"), removed |-> TRUE]
    ELSE IF n \in {Lit_subtitle, Lit_subtituloAcc, Lit_subtitulo, Lit_description, Lit_descripcionAcc, Lit_descripcion}
        THEN [tag |-> remove(t, "TIT3"), removed |-> TRUE]
    ELSE IF n \in {Lit_original_artist, Lit_original_artistHyp, Lit_artista_original, Lit_artista_originalHyp}
        THEN [tag |-> remove(t, "TOPE"), removed |-> TRUE]
    ELSE IF n \in {Lit_album_artist, Lit_album_artistHyp, Lit_artista_album, Lit_artista_albumHyp}
        THEN [tag |-> remove_album_artist(t), removed |-> TRUE]
    ELSE IF n \in {Lit_cover, Lit_caratulaAcc, Lit_caratula}
        THEN [tag |-> remove_all_pictures(t), removed |-> TRUE]
    ELSE IF n \in {Lit_lyrics, Lit_letra}
        THEN [tag |-> remove(t, "USLT"), removed |-> TRUE]
    ELSE IF n \in {Lit_url}
        THEN [tag |-> remove(t, "WOAR"), removed |-> TRUE]
    ELSE IF n \in {Lit_compilation, Lit_compilacionAcc, Lit_compilacion}
        THEN [tag |-> remove(t, "TCMP"), removed |-> TRUE]
    ELSE IF n \in {Lit_album_sort, Lit_album_sortHyp, Lit_orden_album, Lit_orden_albumHyp}
        THEN [tag |-> remove(t, "TSOA"), removed |-> TRUE]
    ELSE IF n \in {Lit_artist_sort, Lit_artist_sortHyp, Lit_orden_artista, Lit_orden_artistaHyp}
        THEN [tag |-> remove(t, "TSOP"), removed |-> TRUE]
    ELSE IF n \in {Lit_title_sort, Lit_title_sortHyp, Lit_orden_titulo, Lit_orden_tituloHyp}
        THEN [tag |-> remove(t, "TSOT"), removed |-> TRUE]
    ELSE [tag |-> t, removed |-> FALSE]

\* The loop of remove_tags ending at the first name that is not matched.
RECURSIVE RemoveLoop_StopsAtUnknown(_, _)
RemoveLoop_StopsAtUnknown(s, names) ==
    IF names = <<>> THEN s
    ELSE LET r == remove_tag(s.tag, Head(names))
         IN IF ~r.removed THEN s
            ELSE RemoveLoop_StopsAtUnknown([tag |-> r.tag, changed |-> TRUE], Tail(names))

\* The for loop of remove_tags over the names left, s = [tag, changed].
RECURSIVE RemoveLoop(_, _)
RemoveLoop(s, names) ==
    IF names = <<>> THEN s
    ELSE LET r == remove_tag(s.tag, Head(names))
         IN RemoveLoop([tag |-> r.tag, changed |-> (r.removed \/ s.changed)], Tail(names))

\* remove_tags(tag, tags_to_remove): [tag, changed]
remove_tags(t, tags_to_remove) == RemoveLoop([tag |-> t, changed |-> FALSE], tags_to_remove)

-----------------------------------------------------------------------------
(* main.rs: the functions main.rs carries itself *)

\* apply_metadata of main.rs: title, artists, album, year, genre, track, date,
\* copyright.
main_apply_metadata(t, a) ==
    LET s0 == [tag |-> t, changed |-> FALSE]
        s1 == ApplyTitle(s0, a)
        s2 == ApplyArtists(s1, a)
        s3 == ApplyAlbum(s2, a)
        s4 == ApplyYear(s3, a)
        s5 == ApplyGenre(s4, a)
        s6 == ApplyTrack(s5, a)
        s7 == ApplyDate(s6, a)
    IN ApplyCopyright(s7, a)

\* main.rs carries its own remove_tags, with fewer names.
main_remove_tag(t, tag_name) ==
    LET n == to_lowercase(tag_name)
    IN
    IF n \in {Lit_title, Lit_tituloAcc}
        THEN [tag |-> remove_title(t), removed |-> TRUE]
    ELSE IF n \in {Lit_artist, Lit_artista}
        THEN [tag |-> remove_artist(t), removed |-> TRUE]
    ELSE IF n \in {Lit_album, Lit_albumAcc}
        THEN [tag |-> remove_album(t), removed |-> TRUE]
    ELSE IF n \in {Lit_year, Lit_anoAcc}
        THEN [tag |-> remove_year(t), removed |-> TRUE]
    ELSE IF n \in {Lit_genre, Lit_generoAcc, Lit_genero}
        THEN [tag |-> remove_genre(t), removed |-> TRUE]
    ELSE IF n \in {Lit_track, Lit_pista}
        THEN [tag |-> remove_track(t), removed |-> TRUE]
    ELSE IF n \in {Lit_date, Lit_fecha}
        THEN [tag |-> remove_date_recorded(t), removed |-> TRUE]
    ELSE IF n \in {Lit_copyright}
        THEN [tag |-> remove(t, "TCOP"), removed |-> TRUE]
    ELSE IF n \in {Lit_cover, Lit_caratulaAcc, Lit_caratula}
        THEN [tag |-> remove_all_pictures(t), removed |-> TRUE]
    ELSE IF n \in {Lit_lyrics, Lit_letra}
        THEN [tag |-> remove(t, "USLT"), removed |-> TRUE]
    ELSE IF n \in {Lit_url}
        THEN [tag |-> remove(t, "WOAR"), removed |-> TRUE]
    ELSE [tag |-> t, removed |-> FALSE]

RECURSIVE MainRemoveLoop(_, _)
MainRemoveLoop(s, names) ==
    IF names = <<>> THEN s
    ELSE LET r == main_remove_tag(s.tag, Head(names))
         IN MainRemoveLoop([tag |-> r.tag, changed |-> (r.removed \/ s.changed)], Tail(names))

main_remove_tags(t, tags_to_remove) ==
    MainRemoveLoop([tag |-> t, changed |-> FALSE], tags_to_remove)

-----------------------------------------------------------------------------
(* The frame codec: the content of a frame as the file holds it.  A text is a
   sequence of characters; NUL is the terminator, Utf8 the encoding byte. *)

NUL == "NUL"

Utf8 == "enc3"

\* The identifiers whose content is a link.
LinkIds == {"WOAR"}

\* The content shape an identifier declares; an unknown identifier is text-shaped.
TypeClass(id) ==
    IF id = "APIC" THEN "Picture"
    ELSE IF id = "USLT" THEN "Lyrics"
    ELSE IF id \in LinkIds THEN "Link"
    ELSE "Text"

\* The position of the first terminator at or after position i; 0 when none.
RECURSIVE FindNul(_, _)
FindNul(b, i) ==
    IF i > Len(b) THEN 0 ELSE IF b[i] = NUL THEN i ELSE FindNul(b, i + 1)

\* encode_frame writing the description of lyrics and of a picture without its terminator.
encode_content_NoTerminator(c) ==
    IF c.kind = "Text" THEN [head |-> <<Utf8>> \o c.text, data |-> <<>>]
    ELSE IF c.kind = "Link" THEN [head |-> c.url, data |-> <<>>]
    ELSE IF c.kind = "Lyrics"
         THEN [head |-> <<Utf8>> \o c.lang \o c.description \o c.text, data |-> <<>>]
    ELSE [head |-> <<Utf8, c.mime_type, NUL, c.picture_type>> \o c.description,
          data |-> c.data]

\* encode_frame: the content bytes of a frame, the textual bytes (head) and the
\* binary payload that follows them (data).
encode_content(c) ==
    IF c.kind = "Text" THEN [head |-> <<Utf8>> \o c.text, data |-> <<>>]
    ELSE IF c.kind = "Link" THEN [head |-> c.url, data |-> <<>>]
    ELSE IF c.kind = "Lyrics"
         THEN [head |-> <<Utf8>> \o c.lang \o c.description \o <<NUL>> \o c.text,
               data |-> <<>>]
    ELSE [head |-> <<Utf8, c.mime_type, NUL, c.picture_type>> \o c.description \o <<NUL>>,
          data |-> c.data]

\* A text with its trailing terminator, if it has one, stripped.
StripNul(s) ==
    IF Len(s) > 0 /\ s[Len(s)] = NUL THEN SubSeq(s, 1, Len(s) - 1) ELSE s

\* decode_frame: [ok, content]; not ok is MalformedFrame.
decode_content(id, s) ==
    LET class == TypeClass(id)
        b == s.head
        bad == [ok |-> FALSE, content |-> [kind |-> class]]
    IN IF class = "Link" THEN [ok |-> TRUE, content |-> [kind |-> "Link", url |-> b]]
       ELSE IF Len(b) = 0 THEN bad
       ELSE IF class = "Text"
            THEN [ok |-> TRUE, content |-> [kind |-> "Text", text |-> StripNul(Tail(b))]]
       ELSE IF class = "Lyrics"
            THEN LET n == FindNul(b, 5)
                 IN IF Len(b) < 4 \/ n = 0 THEN bad
                    ELSE [ok |-> TRUE,
                          content |-> [kind |-> "Lyrics", lang |-> SubSeq(b, 2, 4),
                                       description |-> SubSeq(b, 5, n - 1),
                                       text |-> StripNul(SubSeq(b, n + 1, Len(b)))]]
       ELSE LET m == FindNul(b, 2)
                n == IF m = 0 THEN 0 ELSE FindNul(b, m + 2)
            IN IF m # 3 \/ n = 0 THEN bad
               ELSE [ok |-> TRUE,
                     content |-> [kind |-> "Picture", mime_type |-> b[2],
                                  picture_type |-> b[m + 1],
                                  description |-> SubSeq(b, m + 2, n - 1),
                                  data |-> SubSeq(b, n + 1, Len(b)) \o s.data]]

\* A frame as the file holds it: its identifier and its content bytes.
encode_frame(frame) ==
    LET s == encode_content(frame.content)
    IN [id |-> frame.id, head |-> s.head, data |-> s.data]

\* The frames a tag holds, each as the file holds it.
encode_tag(t) == [i \in 1..Len(t) |-> encode_frame(t[i])]

\* Reading stored frames: every frame decoded, or no tag when one is malformed.
decode_tag(stored) ==
    LET decoded == [i \in 1..Len(stored) |-> decode_content(stored[i].id, stored[i])]
    IN IF \E i \in 1..Len(stored) : ~decoded[i].ok
       THEN [ok |-> FALSE, tag |-> <<>>]
       ELSE [ok |-> TRUE,
             tag |-> [i \in 1..Len(stored) |->
                        [id |-> stored[i].id, content |-> decoded[i].content]]]

-----------------------------------------------------------------------------
(* The file, and the tag read from it and written to it *)

\* Tag::read_from_path(path): Ok(tag) when the file starts with a tag whose
\* frames all decode; else Err, NotID3 with no tag and MalformedFrame with a
\* frame that does not decode.
read_from_path(f) ==
    IF ~f.tagged THEN [ok |-> FALSE, error |-> "NotID3", tag |-> NewTag]
    ELSE LET d == decode_tag(f.frames)
         IN IF d.ok THEN [ok |-> TRUE, error |-> "", tag |-> d.tag]
            ELSE [ok |-> FALSE, error |-> "MalformedFrame", tag |-> NewTag]

\* tag.write_to_path(path, Id3v24): the encoded tag replaces the tag region of
\* the file; what follows it stays.
write_to_path(f, t) == [f EXCEPT !.tagged = TRUE, !.frames = encode_tag(t)]

-----------------------------------------------------------------------------
(* main.rs: main *)

\* main going on with Tag::new() whatever the file holds.
ReadOrCreate_AlwaysNew(f) == NewTag

\* The tag main goes on with: the tag read, or Tag::new() when reading failed.
ReadOrCreate(f) ==
    LET r == read_from_path(f) IN IF r.ok THEN r.tag ELSE NewTag

\* The arguments main passes to apply_metadata.
MetadataArgs(c) ==
    [title |-> c.title, artists |-> c.artist, album |-> c.album, year |-> c.year,
     genre |-> c.genre, track |-> c.track, date |-> c.date, copyright |-> c.copyright]

\* A call main made and what it returned (for a Result, whether it was Ok).
Step(call, result) == [call |-> call, ret |-> result]

\* if let Some(lyrics_text) = &args.lyrics
LyricsStep(t, c) == IF IsSome(c.lyrics) THEN add_lyrics(t, Unwrap(c.lyrics)).tag ELSE t

\* if let Some(url) = &args.url
UrlStep(t, c) == IF IsSome(c.url) THEN add_url(t, Unwrap(c.url)).tag ELSE t

\* The edit steps of main with the metadata set before the removals.
EditSteps_SettingFirst(t0, c) ==
    LET ap == main_apply_metadata(t0, MetadataArgs(c))
        rm == IF Len(c.remove) # 0 THEN main_remove_tags(ap.tag, c.remove)
              ELSE [tag |-> ap.tag, changed |-> FALSE]
        ly == LyricsStep(rm.tag, c)
        ur == UrlStep(ly, c)
    IN [tag |-> ur, changed |-> ap.changed, removed |-> rm.changed,
        lyrics_added |-> IsSome(c.lyrics), url_added |-> IsSome(c.url),
        steps |-> (IF Len(c.remove) # 0 THEN <<Step("remove_tags", rm.changed)>> ELSE <<>>)
                  \o <<Step("apply_metadata", ap.changed)>>
                  \o (IF IsSome(c.lyrics) THEN <<Step("add_lyrics", TRUE)>> ELSE <<>>)
                  \o (IF IsSome(c.url) THEN <<Step("add_url", TRUE)>> ELSE <<>>)]

\* The steps of main after the tag is read and before the cover: removals,
\* metadata, lyrics, URL.  [tag, changed, removed, lyrics_added, url_added, steps]
EditSteps(t0, c) ==
    LET rm == IF Len(c.remove) # 0 THEN main_remove_tags(t0, c.remove)
              ELSE [tag |-> t0, changed |-> FALSE]
        ap == main_apply_metadata(rm.tag, MetadataArgs(c))
        ly == LyricsStep(ap.tag, c)
        ur == UrlStep(ly, c)
    IN [tag |-> ur, changed |-> ap.changed, removed |-> rm.changed,
        lyrics_added |-> IsSome(c.lyrics), url_added |-> IsSome(c.url),
        steps |-> (IF Len(c.remove) # 0 THEN <<Step("remove_tags", rm.changed)>> ELSE <<>>)
                  \o <<Step("apply_metadata", ap.changed)>>
                  \o (IF IsSome(c.lyrics) THEN <<Step("add_lyrics", TRUE)>> ELSE <<>>)
                  \o (IF IsSome(c.url) THEN <<Step("add_url", TRUE)>> ELSE <<>>)]

\* The messages main writes to the standard error stream.
NoMessage == <<>>

Msg_no_existe == <<"Error: El archivo '{}' no existe">>

Msg_sin_tags == <<"No se encontraron tags ID3 en '{}'">>

Msg_caratula_no_existe == <<"Error: El archivo de carátula '{}' no existe">>

Msg_caratula_error == <<"Error: {}">>

\* The end of main writing the other changes before it exits on a cover error.
CoverAndSave_SavingFirst(f, e, c) ==
    LET saved == IF e.changed \/ e.removed \/ e.lyrics_added \/ e.url_added
                 THEN write_to_path(f, e.tag) ELSE f
    IN IF IsSome(c.cover) /\ ~Unwrap(c.cover).exists
       THEN [file |-> saved, tag |-> e.tag, status |-> 1, stderr |-> Msg_caratula_no_existe,
             steps |-> e.steps]
       ELSE LET cv == IF IsSome(c.cover)
                      THEN add_cover_art(e.tag, Unwrap(c.cover).path, Unwrap(c.cover).data)
                      ELSE [tag |-> e.tag, ok |-> TRUE]
                cover_added == IsSome(c.cover) /\ cv.ok
                called == e.steps \o (IF IsSome(c.cover)
                                      THEN <<Step("add_cover_art", cv.ok)>> ELSE <<>>)
            IN IF ~cv.ok
               THEN [file |-> saved, tag |-> cv.tag, status |-> 1,
                     stderr |-> Msg_caratula_error, steps |-> called]
               ELSE IF e.changed \/ cover_added \/ e.removed \/ e.lyrics_added \/ e.url_added
               THEN [file |-> write_to_path(f, cv.tag), tag |-> cv.tag, status |-> 0,
                     stderr |-> NoMessage, steps |-> Append(called, Step("write_to_path", TRUE))]
               ELSE [file |-> f, tag |-> cv.tag, status |-> 0, stderr |-> NoMessage,
                     steps |-> called]

\* The end of main writing the file whether or not anything changed.
CoverAndSave_AlwaysWriting(f, e, c) ==
    IF IsSome(c.cover) /\ ~Unwrap(c.cover).exists
    THEN [file |-> f, tag |-> e.tag, status |-> 1, stderr |-> Msg_caratula_no_existe,
          steps |-> e.steps]
    ELSE LET cv == IF IsSome(c.cover)
                   THEN add_cover_art(e.tag, Unwrap(c.cover).path, Unwrap(c.cover).data)
                   ELSE [tag |-> e.tag, ok |-> TRUE]
             called == e.steps \o (IF IsSome(c.cover)
                                   THEN <<Step("add_cover_art", cv.ok)>> ELSE <<>>)
         IN IF ~cv.ok
            THEN [file |-> f, tag |-> cv.tag, status |-> 1, stderr |-> Msg_caratula_error,
                  steps |-> called]
            ELSE [file |-> write_to_path(f, cv.tag), tag |-> cv.tag, status |-> 0,
                  stderr |-> NoMessage, steps |-> Append(called, Step("write_to_path", TRUE))]

\* The end of main: the cover, then the write when something changed.
\* [file, tag, status, stderr, steps]: the file afterwards, the tag in memory,
\* the exit status, the message on the standard error stream, the calls made.
CoverAndSave(f, e, c) ==
    IF IsSome(c.cover) /\ ~Unwrap(c.cover).exists
    THEN [file |-> f, tag |-> e.tag, status |-> 1, stderr |-> Msg_caratula_no_existe,
          steps |-> e.steps]
    ELSE LET cv == IF IsSome(c.cover)
                   THEN add_cover_art(e.tag, Unwrap(c.cover).path, Unwrap(c.cover).data)
                   ELSE [tag |-> e.tag, ok |-> TRUE]
             cover_added == IsSome(c.cover) /\ cv.ok
             called == e.steps \o (IF IsSome(c.cover)
                                   THEN <<Step("add_cover_art", cv.ok)>> ELSE <<>>)
         IN IF ~cv.ok
            THEN [file |-> f, tag |-> cv.tag, status |-> 1, stderr |-> Msg_caratula_error,
                  steps |-> called]
            ELSE IF e.changed \/ cover_added \/ e.removed \/ e.lyrics_added \/ e.url_added
            THEN [file |-> write_to_path(f, cv.tag), tag |-> cv.tag, status |-> 0,
                  stderr |-> NoMessage, steps |-> Append(called, Step("write_to_path", TRUE))]
            ELSE [file |-> f, tag |-> cv.tag, status |-> 0, stderr |-> NoMessage,
                  steps |-> called]

\* main going on with a new tag when the file does not exist, and creating it.
main_CreatingFile(f, c) ==
    LET g == [f EXCEPT !.exists = TRUE]
        rd == read_from_path(g)
        t0 == ReadOrCreate(g)
    IN IF c.show
       THEN [file |-> f, read |-> t0, tag |-> t0, status |-> 0,
             stderr |-> IF rd.ok THEN NoMessage ELSE Msg_sin_tags,
             steps |-> <<Step("read_from_path", rd.ok)>>]
       ELSE [read |-> t0]
            @@ [CoverAndSave(g, EditSteps(t0, c), c)
                  EXCEPT !.steps = <<Step("read_from_path", rd.ok)>> \o @]

\* main ending with an error when the read finds no tag.
main_FatalWithoutTag(f, c) ==
    IF ~f.exists
    THEN [file |-> f, read |-> NewTag, tag |-> NewTag, status |-> 1,
          stderr |-> Msg_no_existe, steps |-> <<>>]
    ELSE LET rd == read_from_path(f)
             t0 == ReadOrCreate(f)
         IN IF ~rd.ok
            THEN [file |-> f, read |-> t0, tag |-> t0, status |-> 1, stderr |-> Msg_sin_tags,
                  steps |-> <<Step("read_from_path", FALSE)>>]
            ELSE IF c.show
            THEN [file |-> f, read |-> t0, tag |-> t0, status |-> 0, stderr |-> NoMessage,
                  steps |-> <<Step("read_from_path", TRUE)>>]
            ELSE [read |-> t0]
                 @@ [CoverAndSave(f, EditSteps(t0, c), c)
                       EXCEPT !.steps = <<Step("read_from_path", TRUE)>> \o @]

\* main showing the tag after the edit steps and the write instead of before them.
main_ShowingLast(f, c) ==
    IF ~f.exists
    THEN [file |-> f, read |-> NewTag, tag |-> NewTag, status |-> 1,
          stderr |-> Msg_no_existe, steps |-> <<>>]
    ELSE LET rd == read_from_path(f)
             t0 == ReadOrCreate(f)
         IN [read |-> t0]
            @@ [CoverAndSave(f, EditSteps(t0, c), c)
                  EXCEPT !.steps = <<Step("read_from_path", rd.ok)>> \o @]

\* main with the command line c on the file f.
\* [file, read, tag, status, stderr, steps]: read is the tag main started from.
main(f, c) ==
    IF ~f.exists
    THEN [file |-> f, read |-> NewTag, tag |-> NewTag, status |-> 1,
          stderr |-> Msg_no_existe, steps |-> <<>>]
    ELSE LET rd == read_from_path(f)
             t0 == ReadOrCreate(f)
         IN IF c.show
            THEN [file |-> f, read |-> t0, tag |-> t0, status |-> 0,
                  stderr |-> IF rd.ok THEN NoMessage ELSE Msg_sin_tags,
                  steps |-> <<Step("read_from_path", rd.ok)>>]
            ELSE [read |-> t0]
                 @@ [CoverAndSave(f, EditSteps(t0, c), c)
                       EXCEPT !.steps = <<Step("read_from_path", rd.ok)>> \o @]

-----------------------------------------------------------------------------
(* Bounds and inputs *)

\* Calls in one behaviour of Spec.
MaxOps == 3

\* Arguments given (not None) in one apply_metadata call of SpecApply.
MaxGiven == 3

\* Artists in one artists list.
MaxArtists == 2

\* Names in one remove_tags list.
MaxNames == 2

RECURSIVE SeqsUpTo(_, _)
SeqsUpTo(S, n) ==
    IF n = 0 THEN {<<>>}
    ELSE LET shorter == SeqsUpTo(S, n - 1)
         IN shorter \cup {Append(q, x) : q \in {r \in shorter : Len(r) = n - 1}, x \in S}

ArtistNames == {<<"X">>, <<"Y">>}

\* Lists of up to MaxArtists artists, and the list of one artist with an empty name.
ArtistLists == SeqsUpTo(ArtistNames, MaxArtists) \cup {<<(<<>>)>>}

Date_year == <<"2", "0", "2", "6">>

Date_month == <<"2", "0", "2", "6", "-", "0", "1">>

Date_day == <<"2", "0", "2", "6", "-", "0", "1", "-", "2", "2">>

Date_bad == <<"2", "2", "/", "0", "1", "/", "2", "0", "2", "6">>

NoArgs ==
    [title |-> None, artists |-> <<>>, album |-> None, year |-> None, genre |-> None,
     track |-> None, season |-> None, date |-> None, copyright |-> None,
     composer |-> None, subtitle |-> None, original_artist |-> None,
     album_artist |-> None]

\* Per argument of apply_metadata, the values a call may give it.
GivenValues ==
    [title |-> {Some(<<>>), Some(<<"T">>)},
     artists |-> ArtistLists \ {<<>>},
     album |-> {Some(<<"A">>)},
     year |-> {Some(0 - 1), Some(2026)},
     genre |-> {Some(<<>>), Some(<<"G">>)},
     track |-> {Some(0), Some(7)},
     season |-> {Some(0), Some(3)},
     date |-> {Some(Date_year), Some(Date_month), Some(Date_day), Some(Date_bad), Some(<<>>)},
     copyright |-> {Some(<<"C">>)},
     composer |-> {Some(<<"M">>)},
     subtitle |-> {Some(<<"S">>)},
     original_artist |-> {Some(<<"R">>)},
     album_artist |-> {Some(<<"B">>)}]

ArgNames == DOMAIN NoArgs

\* The arguments in the order of the parameters of apply_metadata.
ArgOrder ==
    <<"title", "artists", "album", "year", "genre", "track", "season", "date", "copyright",
      "composer", "subtitle", "original_artist", "album_artist">>

\* The calls that give at most k of the arguments from the i-th on, and no other.
RECURSIVE ArgsFrom(_, _)
ArgsFrom(i, k) ==
    IF i > Len(ArgOrder) \/ k = 0 THEN {NoArgs}
    ELSE ArgsFrom(i + 1, k)
         \cup {[a EXCEPT ![ArgOrder[i]] = v] : a \in ArgsFrom(i + 1, k - 1),
                                               v \in GivenValues[ArgOrder[i]]}

\* A call with every argument given.
AllGiven ==
    [title |-> Some(<<"T">>), artists |-> <<(<<"X">>), (<<"Y">>)>>, album |-> Some(<<"A">>),
     year |-> Some(2026), genre |-> Some(<<"G">>), track |-> Some(7), season |-> Some(3),
     date |-> Some(Date_day), copyright |-> Some(<<"C">>), composer |-> Some(<<"M">>),
     subtitle |-> Some(<<"S">>), original_artist |-> Some(<<"R">>),
     album_artist |-> Some(<<"B">>)]

ApplyArgs == ArgsFrom(1, MaxGiven) \cup {AllGiven}

\* The apply_metadata calls of Spec: no argument, one argument or all arguments
\* given.
SeqGivenValues ==
    [title |-> {Some(<<>>), Some(<<"T">>)},
     artists |-> {<<(<<"X">>), (<<"Y">>)>>},
     album |-> {},
     year |-> {Some(2026)},
     genre |-> {},
     track |-> {Some(7)},
     season |-> {Some(3)},
     date |-> {Some(Date_day), Some(Date_bad)},
     copyright |-> {Some(<<"C">>)},
     composer |-> {},
     subtitle |-> {},
     original_artist |-> {},
     album_artist |-> {Some(<<"B">>)}]

SeqApplyArgs ==
    {NoArgs, AllGiven}
    \cup UNION {{[NoArgs EXCEPT ![f] = v] : v \in SeqGivenValues[f]} : f \in ArgNames}

NoApple == [compilation |-> FALSE, album_sort |-> None, artist_sort |-> None,
            title_sort |-> None]

AppleArgs ==
    [compilation : BOOLEAN, album_sort : {None, Some(<<"a">>)},
     artist_sort : {None, Some(<<"p">>)}, title_sort : {None, Some(<<"t">>), Some(<<>>)}]

\* The add_apple_metadata calls of Spec.
SeqAppleArgs ==
    {NoApple,
     [NoApple EXCEPT !.compilation = TRUE],
     [NoApple EXCEPT !.title_sort = Some(<<"t">>)],
     [compilation |-> TRUE, album_sort |-> Some(<<"b">>), artist_sort |-> Some(<<"q">>),
      title_sort |-> Some(<<>>)]}

LyricsTexts == {<<"l", "1", "\n", "l", "2">>, <<>>}

Urls == {<<"h", ":", "/", "/", "a">>, <<"h", ":", "/", "/", "b">>}

Path_jpg == <<"c", ".", "j", "p", "g">>

Path_PNG == <<"d", "/", "c", ".", "P", "N", "G">>

Path_gif == <<"c", ".", "g", "i", "f">>

Path_none == <<"d", ".", "x", "/", "c", "o", "v", "e", "r">>

CoverPaths == {Path_jpg, Path_PNG, Path_gif, Path_none}

\* The add_cover_art calls of Spec.
SeqCovers ==
    {[cover_path |-> Path_jpg, cover_data |-> <<255, 216>>],
     [cover_path |-> Path_PNG, cover_data |-> <<137>>],
     [cover_path |-> Path_gif, cover_data |-> <<71>>],
     [cover_path |-> Path_none, cover_data |-> <<255, 216>>]}

CoverDatas == {<<255, 216>>, <<>>}

\* Every name remove_tags of lib.rs matches.
RecognisedNames ==
    {
     Lit_title, Lit_tituloAcc, Lit_artist, Lit_artista, Lit_album, Lit_albumAcc,
     Lit_year, Lit_anoAcc, Lit_genre, Lit_generoAcc, Lit_genero, Lit_track, Lit_pista,
     Lit_season, Lit_temporada, Lit_date, Lit_fecha, Lit_copyright, Lit_composer,
     Lit_compositor, Lit_subtitle, Lit_subtituloAcc, Lit_subtitulo, Lit_description,
     Lit_descripcionAcc, Lit_descripcion, Lit_original_artist, Lit_original_artistHyp,
     Lit_artista_original, Lit_artista_originalHyp, Lit_album_artist,
     Lit_album_artistHyp, Lit_artista_album, Lit_artista_albumHyp, Lit_cover,
     Lit_caratulaAcc, Lit_caratula, Lit_lyrics, Lit_letra, Lit_url, Lit_compilation,
     Lit_compilacionAcc, Lit_compilacion, Lit_album_sort, Lit_album_sortHyp,
     Lit_orden_album, Lit_orden_albumHyp, Lit_artist_sort, Lit_artist_sortHyp,
     Lit_orden_artista, Lit_orden_artistaHyp, Lit_title_sort, Lit_title_sortHyp,
     Lit_orden_titulo, Lit_orden_tituloHyp
    }

\* Names in other letter cases, and names remove_tags does not match.
OtherNames ==
    {
     Lit_TITLE, Lit_TituloAcc, Lit_TITULOAcc, Lit_ANOAcc, Lit_CaratulaAcc, Lit_LYRICS,
     Lit_Url, Lit_Orden_AlbumHyp, Lit_COMPILACIONAcc, Lit_invalid_tag, Lit_titulo,
     Lit_ano, Lit_tit, Lit_titles
    }

AllNames == RecognisedNames \cup OtherNames

\* The names that lists of two or more names are made of.
ListNames ==
    {Lit_title, Lit_artista, Lit_TITULOAcc, Lit_cover, Lit_temporada, Lit_date,
     Lit_invalid_tag, Lit_titulo}

NameLists ==
    {<<>>} \cup {<<n>> : n \in AllNames}
    \cup {q \in SeqsUpTo(ListNames, MaxNames) : Len(q) >= 2}

\* The remove_tags calls of Spec.
SeqNameLists == {<<n>> : n \in {Lit_TituloAcc, Lit_url, Lit_compilacion, Lit_tit}}

-----------------------------------------------------------------------------
(* Tags a call may find: built by this program, or read from a file that *)
(* another program wrote                                                 *)

OldArgs ==
    [title |-> Some(<<"t">>), artists |-> <<(<<"x">>)>>, album |-> Some(<<"a">>),
     year |-> Some(1999), genre |-> Some(<<"g">>), track |-> Some(2), season |-> Some(1),
     date |-> Some(<<"1", "9", "9", "9", "-", "1", "2">>), copyright |-> Some(<<"c">>),
     composer |-> Some(<<"m">>), subtitle |-> Some(<<"s">>),
     original_artist |-> Some(<<"r">>), album_artist |-> Some(<<"b">>)]

OldApple ==
    [compilation |-> TRUE, album_sort |-> Some(<<"o">>), artist_sort |-> Some(<<"q">>),
     title_sort |-> Some(<<"u">>)]

\* A tag built in three calls of apply_metadata that together give every field.
TagNamed ==
    apply_metadata(NewTag, [NoArgs EXCEPT !.title = OldArgs.title,
                                          !.artists = OldArgs.artists,
                                          !.album = OldArgs.album,
                                          !.year = OldArgs.year]).tag

TagNumbered ==
    apply_metadata(TagNamed, [NoArgs EXCEPT !.genre = OldArgs.genre,
                                            !.track = OldArgs.track,
                                            !.season = OldArgs.season,
                                            !.date = OldArgs.date]).tag

TagApplied ==
    apply_metadata(TagNumbered, [NoArgs EXCEPT !.copyright = OldArgs.copyright,
                                               !.composer = OldArgs.composer,
                                               !.subtitle = OldArgs.subtitle,
                                               !.original_artist = OldArgs.original_artist,
                                               !.album_artist = OldArgs.album_artist]).tag

\* A tag holding a cover and a URL.
TagLinked == add_url(add_cover_art(NewTag, Path_jpg, <<1>>).tag, <<"h", ":", "/", "/", "o">>).tag

\* ... then an album artist, a track and a recording date.
TagDated ==
    apply_metadata(TagLinked, [NoArgs EXCEPT !.album_artist = Some(<<"b">>),
                                             !.track = Some(2),
                                             !.date = Some(Date_year)]).tag

\* ... then lyrics, the Apple frames and a second cover.
TagSorted ==
    add_cover_art(add_apple_metadata(add_lyrics(TagDated, <<"o">>).tag, OldApple).tag,
                  Path_PNG, <<2>>).tag

\* ... then second lyrics and a second URL.
TagDoubled == add_url(add_lyrics(TagSorted, <<"p">>).tag, <<"h", ":", "/", "/", "p">>).tag

\* ... then a title, artists, an album, a year and a genre.
TagTitled ==
    apply_metadata(TagDoubled, [NoArgs EXCEPT !.title = OldArgs.title,
                                              !.artists = OldArgs.artists,
                                              !.album = OldArgs.album,
                                              !.year = OldArgs.year,
                                              !.genre = OldArgs.genre]).tag

\* ... then a season, a copyright, a composer, a subtitle and an original artist.
TagMixed ==
    apply_metadata(TagTitled, [NoArgs EXCEPT !.season = OldArgs.season,
                                             !.copyright = OldArgs.copyright,
                                             !.composer = OldArgs.composer,
                                             !.subtitle = OldArgs.subtitle,
                                             !.original_artist = OldArgs.original_artist]).tag

TagForeign ==
    <<TextFrame("XXXX", <<"z">>), TextFrame("TIT2", <<"t">>), TextFrame("TPE1", <<"x">>),
      TextFrame("TIT2", <<"u">>), LinkFrame("WOAR", <<"w">>), TextFrame("TRCK", <<"2">>)>>

InitTags == {NewTag, TagApplied, TagMixed, TagForeign}

-----------------------------------------------------------------------------
(* The file is not touched by the library calls *)

NoFile == [exists |-> FALSE, tagged |-> FALSE, frames |-> <<>>, audio |-> <<>>]

NoLatest == <<>>

-----------------------------------------------------------------------------
(* Calls of the library functions on the in-memory tag *)

ApplyMetadataCall(a) ==
    LET r == apply_metadata(tag, a)
    IN /\ tag' = r.tag
       /\ ret' = r.changed
       /\ pre' = tag
       /\ op' = "apply_metadata"
       /\ args' = a
       /\ nops' = nops + 1
       /\ UNCHANGED <<file, latest, stderr, steps, reader, writer>>

RemoveTagsCall(names) ==
    LET r == remove_tags(tag, names)
    IN /\ tag' = r.tag
       /\ ret' = r.changed
       /\ pre' = tag
       /\ op' = "remove_tags"
       /\ args' = names
       /\ nops' = nops + 1
       /\ UNCHANGED <<file, latest, stderr, steps, reader, writer>>

AddAppleMetadataCall(a) ==
    LET r == add_apple_metadata(tag, a)
    IN /\ tag' = r.tag
       /\ ret' = r.changed
       /\ pre' = tag
       /\ op' = "add_apple_metadata"
       /\ args' = a
       /\ nops' = nops + 1
       /\ UNCHANGED <<file, latest, stderr, steps, reader, writer>>

AddLyricsCall(text) ==
    LET r == add_lyrics(tag, text)
    IN /\ tag' = r.tag
       /\ ret' = r.ret
       /\ pre' = tag
       /\ op' = "add_lyrics"
       /\ args' = text
       /\ nops' = nops + 1
       /\ UNCHANGED <<file, latest, stderr, steps, reader, writer>>

AddUrlCall(url) ==
    LET r == add_url(tag, url)
    IN /\ tag' = r.tag
       /\ ret' = r.ret
       /\ pre' = tag
       /\ op' = "add_url"
       /\ args' = url
       /\ nops' = nops + 1
       /\ UNCHANGED <<file, latest, stderr, steps, reader, writer>>

AddCoverArtCall(path, data) ==
    LET r == add_cover_art(tag, path, data)
    IN /\ tag' = r.tag
       /\ ret' = r.ok
       /\ pre' = tag
       /\ op' = "add_cover_art"
       /\ args' = [cover_path |-> path, cover_data |-> data]
       /\ nops' = nops + 1
       /\ UNCHANGED <<file, latest, stderr, steps, reader, writer>>

-----------------------------------------------------------------------------
(* Spec: any sequence of library calls on a tag that starts as Tag::new() *)

Init ==
    /\ tag = NewTag
    /\ pre = NewTag
    /\ op = "new"
    /\ args = <<>>
    /\ ret = FALSE
    /\ nops = 0
    /\ file = NoFile
    /\ latest = NoLatest
    /\ stderr = NoMessage
    /\ steps = <<>>
    /\ reader = NoReader
    /\ writer = NoWriter

Next ==
    /\ nops < MaxOps
    /\ \/ \E a \in SeqApplyArgs : ApplyMetadataCall(a)
       \/ \E names \in SeqNameLists : RemoveTagsCall(names)
       \/ \E a \in SeqAppleArgs : AddAppleMetadataCall(a)
       \/ \E text \in LyricsTexts : AddLyricsCall(text)
       \/ \E url \in Urls : AddUrlCall(url)
       \/ \E c \in SeqCovers : AddCoverArtCall(c.cover_path, c.cover_data)

Spec == Init /\ [][Next]_vars

(* SpecApply: one apply_metadata call on each of the tags of InitTags *)

InitTagged ==
    /\ tag \in InitTags
    /\ pre = tag
    /\ op = "new"
    /\ args = <<>>
    /\ ret = FALSE
    /\ nops = 0
    /\ file = NoFile
    /\ latest = NoLatest
    /\ stderr = NoMessage
    /\ steps = <<>>
    /\ reader = NoReader
    /\ writer = NoWriter

NextApply == nops = 0 /\ \E a \in ApplyArgs : ApplyMetadataCall(a)

SpecApply == InitTagged /\ [][NextApply]_vars

(* SpecApple: up to MaxApple add_apple_metadata calls on each of the tags of InitTags *)

MaxApple == 2

NextApple == nops < MaxApple /\ \E a \in AppleArgs : AddAppleMetadataCall(a)

SpecApple == InitTagged /\ [][NextApple]_vars

(* SpecMime: one detect_mime_type call on each path of MimePaths *)

\* Extensions in several spellings: the supported ones, others, the empty one.
JpegSpellings ==
    {<<"j", "p", "g">>, <<"J", "P", "G">>, <<"J", "p", "g">>, <<"j", "p", "e", "g">>,
     <<"J", "P", "E", "G">>, <<"j", "P", "e", "G">>}

PngSpellings == {<<"p", "n", "g">>, <<"P", "N", "G">>, <<"P", "n", "g">>}

WebpSpellings == {<<"w", "e", "b", "p">>, <<"W", "E", "B", "P">>, <<"W", "e", "b", "P">>}

OtherSpellings ==
    {<<"g", "i", "f">>, <<"G", "I", "F">>, <<"b", "m", "p">>, <<"m", "p", "3">>,
     <<"j", "p">>, <<"j", "p", "g", "x">>, <<"x", "j", "p", "g">>, <<"p", "n">>,
     <<"j", "p", "e">>, <<"w", "e", "b">>, <<"t", "i", "f", "f">>, <<>>}

Spellings == JpegSpellings \cup PngSpellings \cup WebpSpellings \cup OtherSpellings

\* Directories, some with a "." and a supported extension in their name.
Directories ==
    {<<>>, <<"d", "/">>, <<"d", ".", "x", "/">>, <<"d", ".", "p", "n", "g", "/">>,
     <<"/", "a", ".", "j", "p", "g", "/", "b", "/">>}

\* File names without their extension; the last two have no "." inside.
Stems == {<<"a", ".", "b">>, <<".", "h">>, <<"c">>, <<".", "j", "p", "g">>}

DotlessStems == {<<"c">>, <<".", "j", "p", "g">>}

\* A path in its parts: the directory, the stem, the extension (None: the file
\* name is the stem alone, which has no extension).
MimePaths ==
    [dir : Directories, stem : Stems, ext : {Some(e) : e \in Spellings}]
    \cup [dir : Directories, stem : DotlessStems, ext : {None}]

PathOf(p) ==
    p.dir \o p.stem \o (IF IsSome(p.ext) THEN <<".">> \o Unwrap(p.ext) ELSE <<>>)

DetectMimeTypeCall(p) ==
    /\ ret' = detect_mime_type(PathOf(p))
    /\ op' = "detect_mime_type"
    /\ args' = p
    /\ pre' = tag
    /\ nops' = nops + 1
    /\ UNCHANGED <<tag, file, latest, stderr, steps, reader, writer>>

NextMime == nops = 0 /\ \E p \in MimePaths : DetectMimeTypeCall(p)

SpecMime == Init /\ [][NextMime]_vars

(* SpecRemove: one remove_tags call on each of the tags of InitTags *)

NextRemove == nops = 0 /\ \E names \in NameLists : RemoveTagsCall(names)

SpecRemove == InitTagged /\ [][NextRemove]_vars

-----------------------------------------------------------------------------
(* What the claims are stated with *)

\* The recording date of the tag as text.
date_text(t) ==
    IF IsSome(date_recorded(t)) THEN Some(FormatTimestamp(Unwrap(date_recorded(t)))) ELSE None

\* Every field apply_metadata sets, as read back from the tag.
Fields(t) ==
    [title |-> title(t), artist |-> artist(t), album |-> album(t), year |-> year(t),
     genre |-> genre(t), track |-> track(t), season |-> disc(t), date |-> date_text(t),
     copyright |-> text_for(t, "TCOP"), composer |-> text_for(t, "TCOM"),
     subtitle |-> text_for(t, "TIT3"), original_artist |-> text_for(t, "TOPE"),
     album_artist |-> text_for(t, "TPE2")]

\* The date forms the documentation of apply_metadata names: YYYY, YYYY-MM, YYYY-MM-DD.
DateParses(d) ==
    /\ Len(d) \in {4, 7, 10}
    /\ \A i \in 1..Len(d) : IF i \in {5, 8} THEN d[i] = "-" ELSE IsDigit(d[i])

\* a1, ..., an joined with "; ".
RECURSIVE JoinedArtists(_)
JoinedArtists(list) ==
    IF Len(list) = 1 THEN list[1]
    ELSE JoinedArtists(SubSeq(list, 1, Len(list) - 1)) \o <<";", " ">> \o list[Len(list)]

\* The text identifiers apply_metadata and add_apple_metadata set.
TextIds ==
    {"TIT2", "TPE1", "TALB", "TCON", "TRCK", "TPOS", "TCOP", "TCOM", "TIT3", "TOPE",
     "TPE2", "TCMP", "TSOA", "TSOP", "TSOT"}

NoText ==
    [TIT2 |-> None, TPE1 |-> None, TALB |-> None, TCON |-> None, TRCK |-> None,
     TPOS |-> None, TCOP |-> None, TCOM |-> None, TIT3 |-> None, TOPE |-> None,
     TPE2 |-> None, TCMP |-> None, TSOA |-> None, TSOP |-> None, TSOT |-> None]

\* Per text identifier, the value the last call supplied for it (None: none).
Supplied ==
    IF op = "apply_metadata"
    THEN [NoText EXCEPT
            !.TIT2 = args.title,
            !.TPE1 = IF Len(args.artists) > 0 THEN Some(JoinedArtists(args.artists)) ELSE None,
            !.TALB = args.album, !.TCON = args.genre, !.TRCK = args.track,
            !.TPOS = args.season, !.TCOP = args.copyright, !.TCOM = args.composer,
            !.TIT3 = args.subtitle, !.TOPE = args.original_artist,
            !.TPE2 = args.album_artist]
    ELSE IF op = "add_apple_metadata"
    THEN [NoText EXCEPT
            !.TCMP = IF args.compilation THEN Some(<<"1">>) ELSE None,
            !.TSOA = args.album_sort, !.TSOP = args.artist_sort, !.TSOT = args.title_sort]
    ELSE NoText

\* Per text identifier, the value read from the tag.
TextRead(t) ==
    [TIT2 |-> title(t), TPE1 |-> artist(t), TALB |-> album(t), TCON |-> genre(t),
     TRCK |-> track(t), TPOS |-> disc(t), TCOP |-> text_for(t, "TCOP"),
     TCOM |-> text_for(t, "TCOM"), TIT3 |-> text_for(t, "TIT3"),
     TOPE |-> text_for(t, "TOPE"), TPE2 |-> text_for(t, "TPE2"),
     TCMP |-> text_for(t, "TCMP"), TSOA |-> text_for(t, "TSOA"),
     TSOP |-> text_for(t, "TSOP"), TSOT |-> text_for(t, "TSOT")]

\* The fields remove_tags is documented to remove: the English name, the frame
\* identifier, and the other names (Spanish forms, other letter cases).
RemovalGroups ==
    {
     [english |-> Lit_title, id |-> "TIT2",
      aliases |-> {Lit_tituloAcc, Lit_TITLE, Lit_TituloAcc, Lit_TITULOAcc}],
     [english |-> Lit_artist, id |-> "TPE1",
      aliases |-> {Lit_artista}],
     [english |-> Lit_album, id |-> "TALB",
      aliases |-> {Lit_albumAcc}],
     [english |-> Lit_year, id |-> "TYER",
      aliases |-> {Lit_anoAcc, Lit_ANOAcc}],
     [english |-> Lit_genre, id |-> "TCON",
      aliases |-> {Lit_generoAcc, Lit_genero}],
     [english |-> Lit_track, id |-> "TRCK",
      aliases |-> {Lit_pista}],
     [english |-> Lit_season, id |-> "TPOS",
      aliases |-> {Lit_temporada}],
     [english |-> Lit_date, id |-> "TDRC",
      aliases |-> {Lit_fecha}],
     [english |-> Lit_copyright, id |-> "TCOP",
      aliases |-> {}],
     [english |-> Lit_composer, id |-> "TCOM",
      aliases |-> {Lit_compositor}],
     [english |-> Lit_subtitle, id |-> "TIT3",
      aliases |-> {Lit_subtituloAcc, Lit_subtitulo, Lit_description, Lit_descripcionAcc, Lit_descripcion}],
     [english |-> Lit_original_artist, id |-> "TOPE",
      aliases |-> {Lit_original_artistHyp, Lit_artista_original, Lit_artista_originalHyp}],
     [english |-> Lit_album_artist, id |-> "TPE2",
      aliases |-> {Lit_album_artistHyp, Lit_artista_album, Lit_artista_albumHyp}],
     [english |-> Lit_cover, id |-> "APIC",
      aliases |-> {Lit_caratulaAcc, Lit_caratula, Lit_CaratulaAcc}],
     [english |-> Lit_lyrics, id |-> "USLT",
      aliases |-> {Lit_letra, Lit_LYRICS}],
     [english |-> Lit_url, id |-> "WOAR",
      aliases |-> {Lit_Url}],
     [english |-> Lit_compilation, id |-> "TCMP",
      aliases |-> {Lit_compilacionAcc, Lit_compilacion, Lit_COMPILACIONAcc}],
     [english |-> Lit_album_sort, id |-> "TSOA",
      aliases |-> {Lit_album_sortHyp, Lit_orden_album, Lit_orden_albumHyp, Lit_Orden_AlbumHyp}],
     [english |-> Lit_artist_sort, id |-> "TSOP",
      aliases |-> {Lit_artist_sortHyp, Lit_orden_artista, Lit_orden_artistaHyp}],
     [english |-> Lit_title_sort, id |-> "TSOT",
      aliases |-> {Lit_title_sortHyp, Lit_orden_titulo, Lit_orden_tituloHyp}]
    }

GroupNames(g) == {g.english} \cup g.aliases

IsRecognised(name) == \E g \in RemovalGroups : name \in GroupNames(g)

\* The frame identifiers the names of a list stand for.
NamedIds(names) ==
    {g.id : g \in {h \in RemovalGroups :
                     \E i \in 1..Len(names) : names[i] = h.english \/ names[i] \in h.aliases}}

-----------------------------------------------------------------------------
(* Command lines and files of SpecCli *)

\* Invocations in one behaviour of SpecCli.
MaxRuns == 3

NoCli ==
    [show |-> FALSE, remove |-> <<>>, title |-> None, artist |-> <<>>, album |-> None,
     year |-> None, genre |-> None, track |-> None, date |-> None, copyright |-> None,
     lyrics |-> None, url |-> None, cover |-> None]

CoverJpg == Some([path |-> Path_jpg, exists |-> TRUE, data |-> <<255, 216>>])

CoverGif == Some([path |-> Path_gif, exists |-> TRUE, data |-> <<71>>])

CoverMissing == Some([path |-> Path_PNG, exists |-> FALSE, data |-> <<>>])

CoverNoExtension == Some([path |-> Path_none, exists |-> TRUE, data |-> <<255, 216>>])

CliArgs ==
    {NoCli,
     [NoCli EXCEPT !.show = TRUE],
     [NoCli EXCEPT !.show = TRUE, !.title = Some(<<"T">>), !.remove = <<Lit_album>>],
     [NoCli EXCEPT !.title = Some(<<"T">>)],
     [NoCli EXCEPT !.title = Some(<<>>)],
     [NoCli EXCEPT !.artist = <<(<<"X">>)>>],
     [NoCli EXCEPT !.artist = <<(<<"X">>), (<<"Y">>)>>],
     [NoCli EXCEPT !.album = Some(<<"A">>), !.year = Some(2026)],
     [NoCli EXCEPT !.genre = Some(<<"G">>), !.track = Some(7)],
     [NoCli EXCEPT !.track = Some(0), !.year = Some(0 - 1)],
     [NoCli EXCEPT !.date = Some(Date_day)],
     [NoCli EXCEPT !.date = Some(Date_bad)],
     [NoCli EXCEPT !.copyright = Some(<<"C">>)],
     [NoCli EXCEPT !.remove = <<Lit_title>>],
     [NoCli EXCEPT !.remove = <<Lit_TITULOAcc, Lit_album>>],
     [NoCli EXCEPT !.remove = <<Lit_date, Lit_year>>],
     [NoCli EXCEPT !.remove = <<Lit_invalid_tag>>],
     [NoCli EXCEPT !.remove = <<Lit_temporada>>],
     [NoCli EXCEPT !.remove = <<Lit_cover, Lit_lyrics, Lit_url>>],
     [NoCli EXCEPT !.remove = <<Lit_title>>, !.title = Some(<<"U">>)],
     [NoCli EXCEPT !.lyrics = Some(<<"l", "1", "\n", "l", "2">>)],
     [NoCli EXCEPT !.url = Some(<<"h", ":", "/", "/", "a">>)],
     [NoCli EXCEPT !.url = Some(<<"h", ":", "/", "/", "b">>)],
     [NoCli EXCEPT !.cover = CoverJpg],
     [NoCli EXCEPT !.cover = CoverGif, !.title = Some(<<"T">>), !.remove = <<Lit_album>>,
                   !.lyrics = Some(<<"l">>), !.url = Some(<<"h", ":", "/", "/", "a">>)],
     [NoCli EXCEPT !.cover = CoverMissing, !.album = Some(<<"A">>),
                   !.remove = <<Lit_title>>, !.url = Some(<<"h", ":", "/", "/", "b">>)],
     [NoCli EXCEPT !.cover = CoverNoExtension, !.artist = <<(<<"X">>)>>],
     [NoCli EXCEPT !.remove = <<Lit_title, Lit_lyrics>>, !.title = Some(<<"T">>),
                   !.lyrics = Some(<<"l">>), !.url = Some(<<"h", ":", "/", "/", "a">>),
                   !.cover = CoverJpg]}

\* A file with no tag, a file this program tagged, a file another program tagged.
PlainFile == [exists |-> TRUE, tagged |-> FALSE, frames |-> <<>>, audio |-> <<255, 251>>]

EmptyTagFile == [exists |-> TRUE, tagged |-> TRUE, frames |-> <<>>, audio |-> <<>>]

ForeignFile ==
    [exists |-> TRUE, tagged |-> TRUE, frames |-> encode_tag(TagForeign), audio |-> <<255, 250>>]

InitFiles == {NoFile, PlainFile, EmptyTagFile, ForeignFile}

\* The fields main.rs sets, and the frame identifier of each.
FieldId ==
    [title |-> "TIT2", artist |-> "TPE1", album |-> "TALB", year |-> "TYER",
     genre |-> "TCON", track |-> "TRCK", date |-> "TDRC", copyright |-> "TCOP"]

MainFields == DOMAIN FieldId

\* Per field, the value a command line gives it (None: none).
Given(c) ==
    [title |-> c.title,
     artist |-> IF Len(c.artist) > 0 THEN Some(JoinedArtists(c.artist)) ELSE None,
     album |-> c.album, year |-> c.year, genre |-> c.genre, track |-> c.track,
     date |-> IF IsSome(c.date) /\ DateParses(Unwrap(c.date)) THEN c.date ELSE None,
     copyright |-> c.copyright]

\* History: what the file should hold per field after a run of command line c
\* that ended with the given status, when l is what it should hold before it.
LatestAfter(l, c, status) ==
    LET given == Given(c)
        removed == NamedIds(c.remove)
    IN IF c.show \/ status # 0 THEN l
       ELSE [f \in MainFields |->
               IF IsSome(given[f]) THEN given[f]
               ELSE IF FieldId[f] \in removed THEN None
               ELSE l[f]]

LatestOf(f) == LET stored == Fields(read_from_path(f).tag) IN [x \in MainFields |-> stored[x]]

-----------------------------------------------------------------------------
(* SpecCli: invocations of the command line program on one file *)

MainCall(c) ==
    \E r \in {main(file, c)} :
       /\ file' = r.file
       /\ tag' = r.tag
       /\ pre' = r.read
       /\ ret' = r.status
       /\ op' = "main"
       /\ args' = c
       /\ nops' = nops + 1
       /\ latest' = LatestAfter(latest, c, r.status)
       /\ stderr' = r.stderr
       /\ steps' = r.steps
       /\ UNCHANGED <<reader, writer>>

InitCli ==
    /\ file \in InitFiles
    /\ latest = LatestOf(file)
    /\ stderr = NoMessage
    /\ steps = <<>>
    /\ reader = NoReader
    /\ writer = NoWriter
    /\ tag = NewTag
    /\ pre = NewTag
    /\ op = "new"
    /\ args = <<>>
    /\ ret = 0
    /\ nops = 0

NextCli == nops < MaxRuns /\ \E c \in CliArgs : MainCall(c)

SpecCli == InitCli /\ [][NextCli]_vars

(* SpecDamaged: main invocations on a file whose tag holds a frame that does
   not decode *)

\* Lyrics with no terminator after the description.
UnterminatedLyrics == [id |-> "USLT", head |-> <<Utf8, "s", "p", "a", "x">>, data |-> <<>>]

\* A picture whose MIME type is never terminated.
UnterminatedPicture == [id |-> "APIC", head |-> <<Utf8, "image/png">>, data |-> <<137>>]

DamagedFiles ==
    {[exists |-> TRUE, tagged |-> TRUE,
      frames |-> <<encode_frame(TextFrame("TALB", <<"a">>)), UnterminatedLyrics,
                   encode_frame(TextFrame("TIT2", <<"t">>))>>,
      audio |-> <<255, 251>>],
     [exists |-> TRUE, tagged |-> TRUE,
      frames |-> <<UnterminatedPicture>>, audio |-> <<255, 250>>]}

InitDamaged ==
    /\ file \in DamagedFiles
    /\ latest = LatestOf(file)
    /\ stderr = NoMessage
    /\ steps = <<>>
    /\ reader = NoReader
    /\ writer = NoWriter
    /\ tag = NewTag
    /\ pre = NewTag
    /\ op = "new"
    /\ args = <<>>
    /\ ret = 0
    /\ nops = 0

SpecDamaged == InitDamaged /\ [][NextCli]_vars

-----------------------------------------------------------------------------
(* Claims *)

\* C1: every field passed to apply_metadata (title, album, year, genre, track,
\* season, a date that parses, copyright, composer, subtitle, original_artist,
\* album_artist) reads back from the tag, right after the call, as exactly the
\* value passed, whatever the tag held before; the season is stored as the
\* disc (TPOS) field.
C1_SetFieldsReadBack ==
    op = "apply_metadata" =>
        /\ LET after == Fields(tag)
           IN \A f \in {"title", "album", "year", "genre", "track", "season", "copyright",
                        "composer", "subtitle", "original_artist", "album_artist"} :
                 IsSome(args[f]) => after[f] = args[f]
        /\ (IsSome(args.date) /\ DateParses(Unwrap(args.date))) => date_text(tag) = args.date
        /\ IsSome(args.season) =>
              /\ HasFrame(tag, "TPOS")
              /\ ParseUnsigned(Unwrap(get(tag, "TPOS")).content.text) = args.season

C1_Witness ==
    /\ op = "apply_metadata"
    /\ pre = TagMixed
    /\ args.title = Some(<<>>) /\ args.year = Some(0 - 1) /\ args.track = Some(0)
    /\ title(tag) = Some(<<>>) /\ year(tag) = Some(0 - 1) /\ track(tag) = Some(0)

C1_WitnessSeason ==
    /\ op = "apply_metadata"
    /\ pre = TagApplied
    /\ args.season = Some(3) /\ args.date = Some(Date_month)
    /\ disc(tag) = Some(3) /\ track(tag) = Some(2) /\ date_text(tag) = Some(Date_month)

\* C2: apply_metadata leaves unchanged every field whose argument is absent
\* (None, or an empty artists list): it reads the same value as before the call.
C2_AbsentFieldsUnchanged ==
    op = "apply_metadata" =>
        LET before == Fields(pre)
            after == Fields(tag)
        IN /\ \A f \in ArgNames \ {"artists"} : ~IsSome(args[f]) => after[f] = before[f]
           /\ Len(args.artists) = 0 => after.artist = before.artist

C2_Witness ==
    /\ op = "apply_metadata"
    /\ pre = TagApplied
    /\ args = [NoArgs EXCEPT !.album = Some(<<"A">>)]
    /\ album(tag) = Some(<<"A">>)
    /\ title(tag) = Some(<<"t">>) /\ artist(tag) = Some(<<"x">>) /\ year(tag) = Some(1999)

\* The frame identifiers a command line sets.
SetIds(c) == LET given == Given(c) IN {FieldId[f] : f \in {x \in MainFields : IsSome(given[x])}}

\* The frames a command line adds, in the order main adds them.
AddedCount(c) ==
    (IF IsSome(c.lyrics) THEN 1 ELSE 0) + (IF IsSome(c.url) THEN 1 ELSE 0)
    + (IF IsSome(c.cover) THEN 1 ELSE 0)

\* The tag a read of the file gives (the empty tag when the read fails).
Stored(f) == read_from_path(f).tag

\* C3: after any sequence of successful edit invocations on the same file, the
\* file holds for each field the value given by the latest invocation that set
\* it, unless a later invocation removed it; an invocation never changes or
\* drops a stored frame that it neither sets nor removes.
C3_LatestValueStored ==
    /\ LET stored == Fields(Stored(file)) IN \A f \in MainFields : stored[f] = latest[f]
    /\ (op = "main" /\ ret = 0 /\ ~args.show) =>
          LET touched == SetIds(args) \cup NamedIds(args.remove)
              old == SelectSeq(pre, LAMBDA f : f.id \notin touched)
              new == SelectSeq(Stored(file), LAMBDA f : f.id \notin touched)
          IN /\ Len(new) >= Len(old)
             /\ SubSeq(new, 1, Len(old)) = old
             /\ Stored(file) # pre => Len(new) <= Len(old) + AddedCount(args)

C3_Witness ==
    /\ nops = 3
    /\ file.audio = PlainFile.audio
    /\ op = "main"
    /\ args = [NoCli EXCEPT !.remove = <<Lit_title>>]
    /\ HasFrame(pre, "TIT2")
    /\ ~HasFrame(Stored(file), "TIT2")
    /\ artist(Stored(file)) = Some(<<"X", ";", " ", "Y">>)
    /\ latest.title = None

\* C4: given a non-empty artists list a1, ..., an, the tag afterwards holds one
\* artist value, a1, ..., an joined with "; " in the given order, read back
\* verbatim; a list of one artist is stored as that artist unchanged.
C4_ArtistsJoined ==
    (op = "apply_metadata" /\ Len(args.artists) > 0) =>
        /\ artist(tag) = Some(JoinedArtists(args.artists))
        /\ Len(args.artists) = 1 => artist(tag) = Some(args.artists[1])
        /\ Len(get_all(pre, "TPE1")) <= 1 => Len(get_all(tag, "TPE1")) = 1

C4_Witness ==
    /\ op = "apply_metadata"
    /\ pre = TagApplied
    /\ args.artists = <<(<<"Y">>), (<<"X">>)>>
    /\ artist(tag) = Some(<<"Y", ";", " ", "X">>)

\* C5: apply_metadata returns true exactly when title, album, year, genre, track,
\* season, copyright, composer, subtitle, original_artist or album_artist is
\* given, or the artists list is non-empty, or a date is given that parses; a
\* date that does not parse sets nothing and does not make the result true.
C5_ReturnsWhetherSet ==
    op = "apply_metadata" =>
        /\ ret = (\/ \E f \in ArgNames \ {"artists", "date"} : IsSome(args[f])
                  \/ Len(args.artists) > 0
                  \/ (IsSome(args.date) /\ DateParses(Unwrap(args.date))))
        /\ (IsSome(args.date) /\ ~DateParses(Unwrap(args.date))) =>
              get_all(tag, "TDRC") = get_all(pre, "TDRC")
        /\ ~ret => tag = pre

C5_Witness ==
    /\ op = "apply_metadata"
    /\ pre = TagApplied
    /\ args = [NoArgs EXCEPT !.date = Some(Date_bad)]
    /\ ret = FALSE
    /\ tag = pre

C5_WitnessTrue ==
    /\ op = "apply_metadata"
    /\ args = [NoArgs EXCEPT !.date = Some(Date_year)]
    /\ ret = TRUE

\* C6: setting a text field replaces the first frame with that identifier where
\* it stands when one exists and appends a new frame otherwise; so, after any
\* sequence of apply_metadata and add_apple_metadata calls on a new tag, the tag
\* holds at most one frame for each text identifier they set, holding the value
\* supplied last.
C6_OneFramePerTextId ==
    /\ \A id \in TextIds : Len(get_all(tag, id)) <= 1
    /\ op \in {"apply_metadata", "add_apple_metadata"} =>
          \A id \in TextIds :
             IF IsSome(Supplied[id])
             THEN /\ TextRead(tag)[id] = Supplied[id]
                  /\ IF HasFrame(pre, id)
                     THEN FirstIndex(tag, id) = FirstIndex(pre, id)
                     ELSE FirstIndex(tag, id) > Len(pre)
             ELSE get_all(tag, id) = get_all(pre, id)
    /\ op \in {"apply_metadata", "add_apple_metadata"} =>
          \A i \in 1..Len(pre) : tag[i].id = pre[i].id

C6_Witness ==
    /\ op = "apply_metadata"
    /\ Len(pre) >= 3
    /\ HasFrame(pre, "TIT2") /\ FirstIndex(pre, "TIT2") = 2
    /\ title(pre) = Some(<<"T">>)
    /\ args.title = Some(<<>>)
    /\ FirstIndex(tag, "TIT2") = 2 /\ title(tag) = Some(<<>>)
    /\ Len(tag) = Len(pre)

\* C7: remove_tags returns true if and only if the call removed at least one
\* tag; it returns false when it removed nothing.
C7_ReturnsWhetherRemoved ==
    op = "remove_tags" => (ret = (Len(tag) < Len(pre)))

\* C8: for every recognised name passed to remove_tags, in any letter case, in
\* English or Spanish, every frame of the corresponding field is gone after the
\* call, however many there were; an alias removes the same frames as the
\* English name.
C8_NamedFieldsRemoved ==
    op = "remove_tags" =>
        /\ \A id \in NamedIds(args) : get_all(tag, id) = <<>>
        /\ "APIC" \in NamedIds(args) => pictures(tag) = <<>>
        /\ \A g \in RemovalGroups :
              (Len(args) = 1 /\ args[1] \in GroupNames(g)) =>
                  tag = remove_tags(pre, <<g.english>>).tag

C8_Witness ==
    /\ op = "remove_tags"
    /\ args = <<Lit_CaratulaAcc>>
    /\ Len(pictures(pre)) = 2
    /\ pictures(tag) = <<>>

C8_WitnessLyrics ==
    /\ op = "remove_tags"
    /\ args = <<Lit_LYRICS>>
    /\ Len(get_all(pre, "USLT")) = 2
    /\ get_all(tag, "USLT") = <<>>

\* C9: remove_tags removes only the frames of the fields named in its list; every
\* other frame stays, with the same content and in the same order.
C9_OtherFramesKept ==
    op = "remove_tags" =>
        SelectSeq(tag, LAMBDA f : f.id \notin NamedIds(args))
            = SelectSeq(pre, LAMBDA f : f.id \notin NamedIds(args))

C9_Witness ==
    /\ op = "remove_tags"
    /\ pre = TagMixed
    /\ args = <<Lit_date, Lit_title>>
    /\ Len(tag) = Len(pre) - 2
    /\ year(tag) = Some(1999)

\* C10: a name remove_tags does not recognise changes nothing and does not count
\* as a removal: a list of unrecognised names only returns false with the tag
\* unchanged, and the names after an unrecognised one are still processed.
C10_UnknownNamesIgnored ==
    op = "remove_tags" =>
        /\ (\A i \in 1..Len(args) : ~IsRecognised(args[i])) => (ret = FALSE /\ tag = pre)
        /\ \A i \in 1..Len(args) :
              IsRecognised(args[i]) => \A id \in NamedIds(<<args[i]>>) : ~HasFrame(tag, id)
        /\ tag = SelectSeq(pre, LAMBDA f : f.id \notin NamedIds(args))

C10_Witness ==
    /\ op = "remove_tags"
    /\ pre = TagApplied
    /\ args = <<Lit_invalid_tag, Lit_title>>
    /\ ret = TRUE
    /\ ~HasFrame(tag, "TIT2")
    /\ Len(tag) = Len(pre) - 1

C10_WitnessOnlyUnknown ==
    /\ op = "remove_tags"
    /\ pre = TagApplied
    /\ args = <<Lit_titulo, Lit_invalid_tag>>
    /\ ret = FALSE


\* The identifier of the frame each adding call adds.
AddedId == [add_cover_art |-> "APIC", add_lyrics |-> "USLT", add_url |-> "WOAR"]

\* C11: adding a frame always appends: after a successful add_cover_art, an
\* add_lyrics or an add_url the tag is the tag before with one frame more at its
\* end, so no frame is replaced or dropped, the frames with the identifier are
\* those held before followed by the new one, and looking the identifier up
\* gives the first one added; two successful add_cover_art calls leave 2 pictures.
C11_AddAppends ==
    ((op = "add_cover_art" /\ ret = TRUE) \/ op \in {"add_lyrics", "add_url"}) =>
        LET id == AddedId[op]
            added == tag[Len(tag)]
        IN /\ Len(tag) = Len(pre) + 1
           /\ SubSeq(tag, 1, Len(pre)) = pre
           /\ added.id = id
           /\ get_all(tag, id) = Append(get_all(pre, id), added)
           /\ op = "add_cover_art" => pictures(tag) = Append(pictures(pre), added)
           /\ get(tag, id) = IF HasFrame(pre, id) THEN get(pre, id) ELSE Some(added)

C11_Witness ==
    /\ op = "add_cover_art" /\ ret = TRUE
    /\ nops = 2
    /\ Len(pictures(pre)) = 1
    /\ Len(pictures(tag)) = 2
    /\ pictures(tag)[1].content.mime_type = "image/jpeg"
    /\ pictures(tag)[2].content.mime_type = "image/png"
    /\ Unwrap(get(tag, "APIC")).content.mime_type = "image/jpeg"

C11_WitnessLyrics ==
    /\ op = "add_lyrics"
    /\ Len(get_all(pre, "USLT")) = 1
    /\ Len(get_all(tag, "USLT")) = 2
    /\ get_all(tag, "USLT")[1] # get_all(tag, "USLT")[2]


\* The picture a successful add_cover_art of the given path and bytes adds.
ExpectedPicture(cover_path, cover_data) ==
    [mime_type |-> detect_mime_type(cover_path).mime, picture_type |-> "CoverFront",
     description |-> <<"C", "o", "v", "e", "r">>, data |-> cover_data]

\* C12: after any sequence of operations on a new tag, every picture the tag
\* holds has picture type CoverFront and description "Cover"; the picture a
\* successful add_cover_art adds carries the MIME type detected from the cover
\* path and data equal, byte for byte, to the bytes passed in.
C12_PicturesAreFrontCovers ==
    /\ \A i \in 1..Len(pictures(tag)) :
          /\ pictures(tag)[i].id = "APIC"
          /\ pictures(tag)[i].content.picture_type = "CoverFront"
          /\ pictures(tag)[i].content.description = <<"C", "o", "v", "e", "r">>
          /\ pictures(tag)[i].content.mime_type \in {"image/jpeg", "image/png", "image/webp"}
    /\ (op = "add_cover_art" /\ ret = TRUE) =>
          /\ detect_mime_type(args.cover_path).ok
          /\ tag[Len(tag)].content
                = [kind |-> "Picture"] @@ ExpectedPicture(args.cover_path, args.cover_data)

C12_Witness ==
    /\ op = "add_cover_art" /\ ret = TRUE
    /\ args = [cover_path |-> Path_PNG, cover_data |-> <<137>>]
    /\ tag[Len(tag)].content.mime_type = "image/png"
    /\ tag[Len(tag)].content.data = <<137>>
    /\ Len(pictures(tag)) = 2
    /\ ~HasFrame(pre, "USLT") /\ Len(pre) > 1

\* C13: add_lyrics always returns true and adds a USLT frame with language
\* "spa", an empty description and text exactly equal to the input, line breaks
\* included; when the tag is then written to a file and read back, the read
\* succeeds and gives the same lyrics frames, language and text preserved.
C13_LyricsAddedAndReadBack ==
    op = "add_lyrics" =>
        LET added == tag[Len(tag)]
            back == read_from_path(write_to_path(PlainFile, tag))
        IN /\ ret = TRUE
           /\ Len(tag) = Len(pre) + 1
           /\ added.id = "USLT"
           /\ added.content
                = [kind |-> "Lyrics", lang |-> <<"s", "p", "a">>, description |-> <<>>,
                   text |-> args]
           /\ back.ok
           /\ get_all(back.tag, "USLT") = get_all(tag, "USLT")
           /\ back.tag[Len(back.tag)].content.lang = <<"s", "p", "a">>
           /\ back.tag[Len(back.tag)].content.text = args

C13_Witness ==
    /\ op = "add_lyrics" /\ ret = TRUE
    /\ args = <<"l", "1", "\n", "l", "2">>
    /\ Len(pre) = 2
    /\ get_all(read_from_path(write_to_path(PlainFile, tag)).tag, "USLT")
          = <<LyricsFrame(<<"s", "p", "a">>, <<>>, <<"l", "1", "\n", "l", "2">>)>>

\* C14: add_url always returns true and adds a WOAR frame whose content is a
\* Link, not a Text, equal to the given URL; afterwards the frame is among the
\* frames found by the identifier WOAR.
C14_UrlAddedAsLink ==
    op = "add_url" =>
        LET added == tag[Len(tag)]
            found == get_all(tag, "WOAR")
        IN /\ ret = TRUE
           /\ Len(tag) = Len(pre) + 1
           /\ added = [id |-> "WOAR", content |-> [kind |-> "Link", url |-> args]]
           /\ ContentText(added.content) = None
           /\ IsSome(get(tag, "WOAR"))
           /\ Len(found) > 0 /\ found[Len(found)] = added
           /\ ~HasFrame(pre, "WOAR") => get(tag, "WOAR") = Some(added)

C14_Witness ==
    /\ op = "add_url" /\ ret = TRUE
    /\ args = <<"h", ":", "/", "/", "a">>
    /\ Len(pre) > 0 /\ ~HasFrame(pre, "WOAR")
    /\ Unwrap(get(tag, "WOAR")).content = [kind |-> "Link", url |-> <<"h", ":", "/", "/", "a">>]

\* C15: add_apple_metadata returns true exactly when compilation is true or at
\* least one of album_sort, artist_sort, title_sort is given; compilation = true
\* stores TCMP = "1", each given sort value is stored in TSOA, TSOP, TSOT
\* respectively, and compilation = false leaves the TCMP frames as they were.
C15_AppleMetadata ==
    op = "add_apple_metadata" =>
        /\ ret = (args.compilation \/ IsSome(args.album_sort) \/ IsSome(args.artist_sort)
                  \/ IsSome(args.title_sort))
        /\ args.compilation => text_for(tag, "TCMP") = Some(<<"1">>)
        /\ IsSome(args.album_sort) => text_for(tag, "TSOA") = args.album_sort
        /\ IsSome(args.artist_sort) => text_for(tag, "TSOP") = args.artist_sort
        /\ IsSome(args.title_sort) => text_for(tag, "TSOT") = args.title_sort
        /\ ~args.compilation =>
              /\ get_all(tag, "TCMP") = get_all(pre, "TCMP")
              /\ \A i \in 1..Len(pre) : pre[i].id = "TCMP" => tag[i] = pre[i]

C15_Witness ==
    /\ op = "add_apple_metadata" /\ ret = TRUE
    /\ args = [compilation |-> FALSE, album_sort |-> Some(<<"a">>),
               artist_sort |-> Some(<<"p">>), title_sort |-> None]
    /\ text_for(pre, "TCMP") = Some(<<"1">>) /\ text_for(tag, "TCMP") = Some(<<"1">>)
    /\ text_for(pre, "TSOA") = Some(<<"o">>) /\ text_for(tag, "TSOA") = Some(<<"a">>)
    /\ text_for(tag, "TSOP") = Some(<<"p">>) /\ text_for(tag, "TSOT") = Some(<<"u">>)

C15_WitnessNothing ==
    /\ op = "add_apple_metadata" /\ ret = FALSE
    /\ args = NoApple /\ tag = pre /\ HasFrame(tag, "TCMP")

\* C16: detect_mime_type depends only on the extension of the path, compared
\* without regard to case: jpg and jpeg give image/jpeg, png gives image/png,
\* webp gives image/webp, whatever the directory and the rest of the file name;
\* every other extension, and a path with no extension, gives an error and no
\* MIME type.
C16_MimeFromExtension ==
    op = "detect_mime_type" =>
        IF args.ext \in {Some(e) : e \in JpegSpellings}
        THEN ret = [ok |-> TRUE, mime |-> "image/jpeg"]
        ELSE IF args.ext \in {Some(e) : e \in PngSpellings}
        THEN ret = [ok |-> TRUE, mime |-> "image/png"]
        ELSE IF args.ext \in {Some(e) : e \in WebpSpellings}
        THEN ret = [ok |-> TRUE, mime |-> "image/webp"]
        ELSE ~ret.ok /\ ret.mime = ""

C16_Witness ==
    /\ op = "detect_mime_type"
    /\ args = [dir |-> <<"d", ".", "p", "n", "g", "/">>, stem |-> <<"a", ".", "b">>,
               ext |-> Some(<<"j", "P", "e", "G">>)]
    /\ ret = [ok |-> TRUE, mime |-> "image/jpeg"]

C16_WitnessNoExtension ==
    /\ op = "detect_mime_type"
    /\ args = [dir |-> <<"d", ".", "p", "n", "g", "/">>, stem |-> <<".", "j", "p", "g">>,
               ext |-> None]
    /\ ~ret.ok

\* C17: an invocation on an MP3 path that does not exist ends with exit status 1
\* and an error message on the standard error stream, whatever its options, and
\* leaves the path as it was: no file is created or written there.
C17_MissingFileFails ==
    [][~file.exists =>
          /\ op' = "main"
          /\ ret' = 1
          /\ stderr' = <<"Error: El archivo '{}' no existe">>
          /\ file' = file
          /\ ~file'.exists /\ ~file'.tagged]_vars

C17_Witness ==
    /\ op = "main" /\ nops = 2
    /\ ~file.exists /\ file = NoFile
    /\ ret = 1 /\ stderr # NoMessage
    /\ args = [NoCli EXCEPT !.title = Some(<<"T">>)]

\* The cover paths of the command lines that detect_mime_type rejects.
RejectedCoverPaths == {<<"c", ".", "g", "i", "f">>, <<"d", ".", "x", "/", "c", "o", "v", "e", "r">>}

C18_WitnessMissing ==
    /\ op = "main" /\ ret = 1
    /\ args.cover = CoverMissing /\ args.remove = <<Lit_title>>
    /\ title(Stored(file)) = Some(<<"T">>)
    /\ stderr = Msg_caratula_no_existe

\* Whether a command line gives something to store: a field, lyrics, a URL, a cover.
GivesSomething(c) ==
    SetIds(c) # {} \/ IsSome(c.lyrics) \/ IsSome(c.url) \/ IsSome(c.cover)

\* C19: on an existing file in which no ID3 tag is found, an edit invocation is
\* not stopped by the failed read: it starts from a new empty tag, fails only on
\* a cover error, and when it gives something to store the file afterwards
\* holds exactly the tag built from the empty one (the given fields with their
\* values, no other field) in front of the unchanged audio; a show invocation
\* ends with status 0 and leaves the file as it was.
C19_NoTagIsNotFatal ==
    [][(file.exists /\ ~file.tagged) =>
          /\ args'.show => (ret' = 0 /\ file' = file)
          /\ ~args'.show =>
                /\ pre' = <<>>
                /\ ret' = 1 => IsSome(args'.cover)
                /\ (ret' = 0 /\ GivesSomething(args')) =>
                      /\ file'.exists /\ file'.tagged
                      /\ file'.audio = file.audio
                      /\ Stored(file') = tag'
                      /\ LET given == Given(args')
                             stored == Fields(Stored(file'))
                         IN \A f \in MainFields : stored[f] = given[f]
                      /\ Len(tag') = Cardinality(SetIds(args')) + AddedCount(args')]_vars

C19_Witness ==
    /\ op = "main" /\ nops = 1 /\ ret = 0
    /\ pre = <<>>
    /\ args = [NoCli EXCEPT !.album = Some(<<"A">>), !.year = Some(2026)]
    /\ file.tagged /\ file.audio = PlainFile.audio
    /\ album(Stored(file)) = Some(<<"A">>) /\ year(Stored(file)) = Some(2026)
    /\ Len(Stored(file)) = 2

C19_WitnessShow ==
    /\ op = "main" /\ nops = 1 /\ ret = 0
    /\ args.show
    /\ file = PlainFile
    /\ stderr = Msg_sin_tags

\* C20: a read that fails with MalformedFrame is fatal for that read, and an
\* edit invocation on such a file does not go on as it does after NotID3: it
\* does not write a tag built from the empty one over the file.
C20_MalformedReadIsFatal ==
    [][(/\ file.exists /\ file.tagged
        /\ read_from_path(file).error = "MalformedFrame"
        /\ ~args'.show) =>
          file' = file]_vars



-----------------------------------------------------------------------------
(* The write decision of main *)

\* The calls of main that change the tag in memory.
MutatingCalls == {"remove_tags", "apply_metadata", "add_lyrics", "add_url", "add_cover_art"}

\* Whether a trace of calls holds a write of the file.
Wrote(st) == \E i \in DOMAIN st : st[i].call = "write_to_path"

\* Whether a trace of calls holds a call that reported a change: apply_metadata
\* or remove_tags returned true, or a cover, lyrics or a URL was added.
ChangeMade(st) == \E i \in DOMAIN st : st[i].call \in MutatingCalls /\ st[i].ret

\* Whether a command line has no effective change: no option that names a
\* removal, a field with a usable value, lyrics, a URL or a cover.
NoEffectiveChange(c) == Len(c.remove) = 0 /\ ~GivesSomething(c)

C27_WitnessBadDate ==
    /\ op = "main" /\ ret = 0 /\ nops = 1
    /\ args = [NoCli EXCEPT !.date = Some(Date_bad)]
    /\ steps = <<Step("read_from_path", FALSE), Step("apply_metadata", FALSE)>>
    /\ file = PlainFile

\* A change made in memory and dropped by a cover error: the file is not written.
C27_WitnessDropped ==
    /\ op = "main" /\ ret = 1
    /\ ChangeMade(steps) /\ ~Wrote(steps)
    /\ stderr = Msg_caratula_error


-----------------------------------------------------------------------------
(* The show flow *)

\* Whether a trace of calls holds one of the calls that change the tag.
Mutated(st) == \E i \in DOMAIN st : st[i].call \in MutatingCalls

\* C28: the show flow is read-only: with the show option main never writes the
\* file and applies none of the remove, set, lyrics, URL or cover options of
\* the same command line (the tag in memory stays the tag that was read), and
\* the file after the run equals the file before it.
C28_ShowIsReadOnly ==
    [][args'.show =>
          /\ file' = file
          /\ ~Wrote(steps') /\ ~Mutated(steps')
          /\ tag' = pre'
          /\ file.exists =>
                (steps' = <<Step("read_from_path", read_from_path(file).ok)>>
                 /\ tag' = Stored(file))]_vars

\* A show with a title and a removal of the album, on a file an earlier
\* invocation gave an album: the file keeps its album and gets no title.
C28_Witness ==
    /\ op = "main" /\ ret = 0 /\ nops = 2
    /\ args = [NoCli EXCEPT !.show = TRUE, !.title = Some(<<"T">>), !.remove = <<Lit_album>>]
    /\ steps = <<Step("read_from_path", TRUE)>>
    /\ tag = Stored(file)
    /\ album(tag) = Some(<<"A">>) /\ ~HasFrame(tag, "TIT2")


-----------------------------------------------------------------------------
(* The order of the steps of main *)

\* The place of each call in main.
StepRank ==
    [read_from_path |-> 1, remove_tags |-> 2, apply_metadata |-> 3, add_lyrics |-> 4,
     add_url |-> 5, add_cover_art |-> 6, write_to_path |-> 7]

\* Whether a trace of calls follows the order of main, each call at most once.
InMainOrder(st) ==
    \A i, j \in DOMAIN st : i < j => StepRank[st[i].call] < StepRank[st[j].call]

\* The identifiers of the frames a command line adds, in the order main adds them.
AddedIds(c) ==
    (IF IsSome(c.lyrics) THEN <<"USLT">> ELSE <<>>)
    \o (IF IsSome(c.url) THEN <<"WOAR">> ELSE <<>>)
    \o (IF IsSome(c.cover) THEN <<"APIC">> ELSE <<>>)

\* The identifiers of the last n frames of a tag.
LastIds(t, n) == [i \in 1..n |-> t[Len(t) - n + i].id]

\* C29: within one invocation the steps run in a fixed order (read, removals,
\* set metadata, lyrics, URL, cover, write), each at most once, the read first
\* and the write last; the tag written is the tag after every mutation; a field
\* both removed and set in the invocation holds the new value in the written
\* file; and the frames added (lyrics, URL, cover, in that order) are the last
\* frames of the written tag, removals of the same invocation notwithstanding.
C29_StepsInOrder ==
    [][/\ InMainOrder(steps')
       /\ steps' # <<>> => steps'[1].call = "read_from_path"
       /\ Wrote(steps') =>
             LET written == Stored(file')
                 stored == Fields(written)
                 given == Given(args')
                 removed == NamedIds(args'.remove)
             IN /\ steps'[Len(steps')].call = "write_to_path"
                /\ file' = write_to_path(file, tag')
                /\ \A f \in MainFields :
                      (FieldId[f] \in removed /\ IsSome(given[f])) => stored[f] = given[f]
                /\ Len(written) >= AddedCount(args')
                /\ LastIds(written, AddedCount(args')) = AddedIds(args')]_vars

\* Title and lyrics removed and given anew, with a URL and a cover, on a file
\* that held a title: every step runs, and the written tag holds the new title
\* and ends with the lyrics, the URL and the picture.
C29_Witness ==
    /\ op = "main" /\ ret = 0
    /\ args.remove = <<Lit_title, Lit_lyrics>> /\ args.title = Some(<<"T">>)
    /\ title(pre) = Some(<<"U">>)
    /\ steps = <<Step("read_from_path", TRUE), Step("remove_tags", TRUE),
                 Step("apply_metadata", TRUE), Step("add_lyrics", TRUE),
                 Step("add_url", TRUE), Step("add_cover_art", TRUE),
                 Step("write_to_path", TRUE)>>
    /\ title(Stored(file)) = Some(<<"T">>)
    /\ LastIds(Stored(file), 3) = <<"USLT", "WOAR", "APIC">>


-----------------------------------------------------------------------------
(* add_cover_art is all-or-nothing *)

\* The cover paths of Spec whose extension is unsupported (gif) or missing.
UnsupportedCoverPaths == {Path_gif, Path_none}

\* C30: add_cover_art is all-or-nothing: when the extension of the cover path is
\* unsupported or missing it returns an error and the tag is unchanged (no
\* picture added, no frame altered); otherwise it succeeds, exactly one picture
\* (holding the given data) is added and no other frame changes.
C30_CoverAllOrNothing ==
    op = "add_cover_art" =>
        /\ ret = (args.cover_path \notin UnsupportedCoverPaths)
        /\ ~ret => (tag = pre /\ pictures(tag) = pictures(pre))
        /\ ret =>
              /\ Len(tag) = Len(pre) + 1
              /\ SubSeq(tag, 1, Len(pre)) = pre
              /\ Len(pictures(tag)) = Len(pictures(pre)) + 1
              /\ tag[Len(tag)].content.kind = "Picture"
              /\ tag[Len(tag)].content.data = args.cover_data

\* A cover path without an extension, on a tag that holds a picture and lyrics:
\* the call fails and the tag is the tag before.
C30_Witness ==
    /\ op = "add_cover_art" /\ ret = FALSE
    /\ args.cover_path = Path_none
    /\ Len(pictures(pre)) = 1 /\ HasFrame(pre, "USLT")
    /\ tag = pre

\* A supported cover on a tag that holds a picture: one picture more.
C30_WitnessAdded ==
    /\ op = "add_cover_art" /\ ret = TRUE
    /\ Len(pictures(pre)) = 1 /\ Len(pictures(tag)) = 2
    /\ SubSeq(tag, 1, Len(pre)) = pre


-----------------------------------------------------------------------------
(* Round trip of a tag through the file *)

\* The content kinds a tag holds.
Kinds(t) == {t[i].content.kind : i \in DOMAIN t}

\* C21: round trip: whenever main writes the tag it built (text frames, links,
\* lyrics, pictures, frames with an unknown identifier), reading the written
\* file succeeds and gives a tag equal to the one written, frame for frame in
\* the same order with the same content; so do the encoding and decoding of
\* the frames alone.
C21_RoundTrip ==
    [][Wrote(steps') =>
          /\ read_from_path(file').ok
          /\ read_from_path(file').tag = tag'
          /\ decode_tag(encode_tag(tag')) = [ok |-> TRUE, tag |-> tag']]_vars

\* A written tag holding a frame of every kind, one with an unknown
\* identifier among them, read back equal.
C21_Witness ==
    /\ op = "main" /\ ret = 0 /\ Wrote(steps)
    /\ Kinds(tag) = {"Text", "Link", "Lyrics", "Picture"}
    /\ HasFrame(tag, "XXXX")
    /\ Len(tag) >= 6
    /\ read_from_path(file).tag = tag


-----------------------------------------------------------------------------
(* The synchsafe integer codec *)

\* The largest value four synchsafe bytes hold: 0x0FFFFFFF, 28 bits.
SynchsafeMax == 268435455

\* encode writing the value as four plain bytes, eight bits each.
synchsafe_encode_EightBits(v) ==
    IF v > SynchsafeMax THEN [ok |-> FALSE, bytes |-> <<>>]
    ELSE [ok |-> TRUE,
          bytes |-> <<(v \div 16777216) % 256, (v \div 65536) % 256,
                      (v \div 256) % 256, v % 256>>]

\* encode(value: u32) -> [u8; 4], or an error: [ok, bytes]
synchsafe_encode(v) ==
    IF v > SynchsafeMax THEN [ok |-> FALSE, bytes |-> <<>>]
    ELSE [ok |-> TRUE,
          bytes |-> <<(v \div 2097152) % 128, (v \div 16384) % 128,
                      (v \div 128) % 128, v % 128>>]

\* decode(bytes: [u8; 4]) -> u32, or an error when a byte has bit 7 set: [ok, value]
synchsafe_decode(b) ==
    IF \E i \in 1..4 : b[i] >= 128 THEN [ok |-> FALSE, value |-> 0]
    ELSE [ok |-> TRUE, value |-> b[1] * 2097152 + b[2] * 16384 + b[3] * 128 + b[4]]

\* The values encoded: every value up to MaxLowValue, every mix of the groups
\* 0, 1 and 127 in the four 7-bit places, the two ends of the 28-bit range,
\* and values beyond it up to the largest the checker's integers hold.
MaxLowValue == 130

SevenBitGroups == {0, 1, 127}

SynchsafeValues ==
    (0..MaxLowValue)
    \cup {a * 2097152 + b * 16384 + c * 128 + d :
            a \in SevenBitGroups, b \in SevenBitGroups,
            c \in SevenBitGroups, d \in SevenBitGroups}
    \cup {SynchsafeMax - 1, SynchsafeMax, SynchsafeMax + 1, SynchsafeMax + 129,
          2 * SynchsafeMax, 2147483647}

\* Four bytes that are not synchsafe: one of them has bit 7 set.
UnsafeQuads == {<<128, 0, 0, 0>>, <<0, 0, 0, 255>>, <<0, 200, 0, 1>>, <<127, 127, 128, 127>>}

SynchsafeEncodeCall(v) ==
    /\ nops = 0
    /\ ret' = synchsafe_encode(v)
    /\ op' = "synchsafe_encode"
    /\ args' = v
    /\ pre' = None
    /\ nops' = 1
    /\ UNCHANGED <<tag, file, latest, stderr, steps, reader, writer>>

\* decode of the bytes the encode before it gave (pre: the value encoded), or
\* of four bytes that are not synchsafe (pre: None).
SynchsafeDecodeCall(b, v) ==
    /\ ret' = synchsafe_decode(b)
    /\ op' = "synchsafe_decode"
    /\ args' = b
    /\ pre' = v
    /\ nops' = nops + 1
    /\ UNCHANGED <<tag, file, latest, stderr, steps, reader, writer>>

NextSynchsafe ==
    \/ \E v \in SynchsafeValues : SynchsafeEncodeCall(v)
    \/ op = "synchsafe_encode" /\ ret.ok /\ SynchsafeDecodeCall(ret.bytes, Some(args))
    \/ nops = 0 /\ \E b \in UnsafeQuads : SynchsafeDecodeCall(b, None)

SpecSynchsafe == Init /\ [][NextSynchsafe]_vars

\* C22: synchsafe codec: encode accepts exactly the values up to 0x0FFFFFFF; it
\* gives four bytes, each below 128 (most significant bit 0), the most
\* significant 7-bit group first; decode of the bytes gives the value back.
C22_SynchsafeRoundTrip ==
    /\ op = "synchsafe_encode" =>
          /\ ret.ok <=> args <= SynchsafeMax
          /\ ret.ok =>
                /\ Len(ret.bytes) = 4
                /\ \A i \in 1..4 : ret.bytes[i] \in 0..127
                /\ ret.bytes[1] = args \div 2097152
                /\ ret.bytes[2] = (args % 2097152) \div 16384
                /\ ret.bytes[3] = (args % 16384) \div 128
                /\ ret.bytes[4] = args % 128
    /\ (op = "synchsafe_decode" /\ IsSome(pre)) =>
          (ret.ok /\ ret.value = Unwrap(pre))

\* The largest value, encoded as four bytes of 127 and decoded back.
C22_Witness ==
    /\ op = "synchsafe_decode"
    /\ pre = Some(SynchsafeMax)
    /\ args = <<127, 127, 127, 127>>
    /\ ret = [ok |-> TRUE, value |-> SynchsafeMax]

\* The first value beyond the range, rejected.
C22_WitnessRejected ==
    /\ op = "synchsafe_encode"
    /\ args = SynchsafeMax + 1
    /\ ~ret.ok


-----------------------------------------------------------------------------
(* The tag on bytes: header, frames, padding *)

\* The three bytes "ID3".
Magic == <<73, 68, 51>>

\* n bytes of b after the first `from`.
Slice(b, from, n) == SubSeq(b, from + 1, from + n)

Zeros(n) == [i \in 1..n |-> 0]

AllZero(b) == \A i \in DOMAIN b : b[i] = 0

\* An ASCII uppercase letter or digit.
IsIdChar(x) == x \in 65..90 \/ x \in 48..57

\* The extended-header-present bit of the header flags.
HasExtendedHeader(flags) == (flags \div 64) % 2 = 1

\* A frame as its byte run: identifier, synchsafe content size, flags, content.
encode_frame_bytes(fr) ==
    fr.id \o synchsafe_encode(Len(fr.body)).bytes \o fr.flags \o fr.body

RECURSIVE FramesBytes(_)
FramesBytes(frames) ==
    IF Len(frames) = 0 THEN <<>>
    ELSE encode_frame_bytes(Head(frames)) \o FramesBytes(Tail(frames))

\* The 10-byte header: magic, major and minor version, flags, synchsafe size.
HeaderBytes(major, flags, size) ==
    Magic \o <<major, 0, flags>> \o synchsafe_encode(size).bytes

\* decode_frame that takes four zero bytes for an identifier.
decode_frame_NoSentinel(b, offset, stop) ==
    LET left == stop - offset
        id == Slice(b, offset, 4)
        malformed == [kind |-> "error", error |-> "MalformedFrame"]
    IN IF \E i \in 1..4 : ~(IsIdChar(id[i]) \/ id[i] = 0) THEN malformed
       ELSE IF left < 10 THEN malformed
       ELSE LET size == synchsafe_decode(Slice(b, offset + 4, 4))
            IN IF ~size.ok THEN [kind |-> "error", error |-> "SynchsafeError"]
               ELSE IF size.value > left - 10 THEN malformed
               ELSE [kind |-> "frame", consumed |-> 10 + size.value,
                     frame |-> [id |-> id, flags |-> Slice(b, offset + 8, 2),
                                body |-> Slice(b, offset + 10, size.value)]]

\* decode_frame(buffer, offset) within a tag that ends at stop, at least four
\* bytes before it: the padding sentinel, a frame and the bytes it takes, or
\* an error.
decode_frame(b, offset, stop) ==
    LET left == stop - offset
        id == Slice(b, offset, 4)
        malformed == [kind |-> "error", error |-> "MalformedFrame"]
    IN IF AllZero(id) THEN [kind |-> "padding"]
       ELSE IF \E i \in 1..4 : ~IsIdChar(id[i]) THEN malformed
       ELSE IF left < 10 THEN malformed
       ELSE LET size == synchsafe_decode(Slice(b, offset + 4, 4))
            IN IF ~size.ok THEN [kind |-> "error", error |-> "SynchsafeError"]
               ELSE IF size.value > left - 10 THEN malformed
               ELSE [kind |-> "frame", consumed |-> 10 + size.value,
                     frame |-> [id |-> id, flags |-> Slice(b, offset + 8, 2),
                                body |-> Slice(b, offset + 10, size.value)]]

-----------------------------------------------------------------------------
(* The tag reader: ReadHeader, ReadExtendedHeader, ReadFrames, Done *)

\* The reader about to read the buffer of an input: its phase, the buffer, the
\* offset reached, the end of the tag region, the frames decoded so far, the
\* tag it yields (None until Done), the error.  made: the frames the buffer was
\* built from when it holds a well-formed tag.
ReaderStart(in) ==
    [phase |-> "ReadHeader", buf |-> in.buf, made |-> in.made, offset |-> 0, stop |-> 0,
     frames |-> <<>>, tag |-> None, error |-> ""]

\* A parsing error aborts the whole read: no tag.
ReaderError(r, e) == [r EXCEPT !.phase = "Error", !.error = e, !.tag = None]

\* ReadHeader: the reader states that may follow.
ReadHeader(r) ==
    LET b == r.buf
    IN IF Len(b) < 10 \/ Slice(b, 0, 3) # Magic THEN {ReaderError(r, "NotID3")}
       ELSE IF b[4] \notin {3, 4} THEN {ReaderError(r, "UnsupportedVersion")}
       ELSE LET size == synchsafe_decode(Slice(b, 6, 4))
            IN IF ~size.ok THEN {ReaderError(r, "SynchsafeError")}
               ELSE {[r EXCEPT !.phase = IF HasExtendedHeader(b[6])
                                         THEN "ReadExtendedHeader" ELSE "ReadFrames",
                               !.offset = 10, !.stop = 10 + size.value]}

\* ReadExtendedHeader: skips the synchsafe-sized block.
ReadExtendedHeader(r) ==
    LET size == synchsafe_decode(Slice(r.buf, r.offset, 4))
    IN IF ~size.ok THEN {ReaderError(r, "SynchsafeError")}
       ELSE {[r EXCEPT !.phase = "ReadFrames", !.offset = @ + size.value]}

\* ReadFrames yielding the frames decoded so far when a frame is malformed.
ReadFrames_KeepingFrames(r) ==
    LET left == r.stop - r.offset
        done == [r EXCEPT !.phase = "Done", !.tag = Some(r.frames)]
        partial(e) == [r EXCEPT !.phase = "Error", !.error = e, !.tag = Some(r.frames)]
    IN IF left <= 0 THEN {done}
       ELSE IF left < 4
            THEN IF AllZero(Slice(r.buf, r.offset, left))
                 THEN {done, partial("MalformedFrame")}
                 ELSE {partial("MalformedFrame")}
       ELSE \* the frame codec's decode step
            LET d == decode_frame(r.buf, r.offset, r.stop)
            IN IF d.kind = "padding" THEN {done}
               ELSE IF d.kind = "error" THEN {partial(d.error)}
               ELSE {[r EXCEPT !.frames = Append(@, d.frame), !.offset = @ + d.consumed]}

\* ReadFrames: one turn of the loop.  Fewer than four bytes left before the end
\* of the tag cannot hold an identifier: when they are zero the spec leaves open
\* whether they end the read as padding or fail as a cut frame.
ReadFrames(r) ==
    LET left == r.stop - r.offset
        done == [r EXCEPT !.phase = "Done", !.tag = Some(r.frames)]
    IN IF left <= 0 THEN {done}
       ELSE IF left < 4
            THEN IF AllZero(Slice(r.buf, r.offset, left))
                 THEN {done, ReaderError(r, "MalformedFrame")}
                 ELSE {ReaderError(r, "MalformedFrame")}
       ELSE LET d == decode_frame(r.buf, r.offset, r.stop)
            IN IF d.kind = "padding" THEN {done}
               ELSE IF d.kind = "error" THEN {ReaderError(r, d.error)}
               ELSE {[r EXCEPT !.frames = Append(@, d.frame), !.offset = @ + d.consumed]}

ReadHeaderStep ==
    /\ reader.phase = "ReadHeader"
    /\ reader' \in ReadHeader(reader)
    /\ UNCHANGED <<tag, pre, op, args, ret, nops, file, latest, stderr, steps, writer>>

ReadExtendedHeaderStep ==
    /\ reader.phase = "ReadExtendedHeader"
    /\ reader' \in ReadExtendedHeader(reader)
    /\ UNCHANGED <<tag, pre, op, args, ret, nops, file, latest, stderr, steps, writer>>

ReadFramesStep ==
    /\ reader.phase = "ReadFrames"
    /\ reader' \in ReadFrames(reader)
    /\ UNCHANGED <<tag, pre, op, args, ret, nops, file, latest, stderr, steps, writer>>

(* The buffers read *)

\* "TIT2" with a text, "APIC" with zero bytes inside its content, "TCOP" with
\* no content, and a frame of another writer with a flag bit set.
RawTitle == [id |-> <<84, 73, 84, 50>>, flags |-> <<0, 0>>, body |-> <<3, 84>>]

RawPicture ==
    [id |-> <<65, 80, 73, 67>>, flags |-> <<0, 0>>, body |-> <<3, 0, 3, 0, 0, 0, 0, 216>>]

RawEmpty == [id |-> <<84, 67, 79, 80>>, flags |-> <<0, 0>>, body |-> <<>>]

RawForeign == [id |-> <<88, 88, 88, 88>>, flags |-> <<64, 0>>, body |-> <<0, 0, 0, 0>>]

RawTags ==
    {<<>>, <<RawTitle>>, <<RawPicture, RawTitle>>, <<RawEmpty, RawForeign, RawTitle>>,
     <<RawTitle, RawTitle, RawPicture>>}

\* Bytes of padding after the last frame.
Paddings == {0, 1, 3, 4, 10, 12}

\* No extended header, or one of six bytes (its size, then two bytes).
ExtendedHeaders == {<<>>, <<0, 0, 0, 6, 1, 65>>}

\* What follows the tag in the buffer.
Audios == {<<>>, <<255, 251, 0, 0>>, <<0, 0, 0, 0, 255, 251>>}

\* A tag region: header, extended header, frames, padding.
TagBytes(major, ext, frames, padding) ==
    LET rest == ext \o FramesBytes(frames) \o Zeros(padding)
    IN HeaderBytes(major, IF Len(ext) > 0 THEN 64 ELSE 0, Len(rest)) \o rest

WellFormedInputs ==
    {[buf |-> TagBytes(major, ext, frames, padding) \o audio, made |-> Some(frames)] :
        major \in {3, 4}, ext \in ExtendedHeaders, frames \in RawTags,
        padding \in Paddings, audio \in Audios}

\* The content bytes left in the tag behind the frame that declares more.
MaxLeft == 50

\* The content size that frame declares.
DeclaredSize == 1000

\* A frame whose declared content size exceeds the bytes left in the tag.
OversizedFrame(id, declared, left) ==
    id \o synchsafe_encode(declared).bytes \o <<0, 0>> \o [i \in 1..left |-> 7]

\* Tag regions whose last frame is broken, behind the given frames.
BrokenTag(frames, last) ==
    LET rest == FramesBytes(frames) \o last
    IN HeaderBytes(4, 0, Len(rest)) \o rest

BrokenInputs ==
    {[buf |-> b, made |-> None] :
        b \in {<<>>, <<255, 251, 0, 0>>, <<73, 68>>,
               <<255, 251, 144, 0, 0, 0, 0, 0, 0, 0, 0, 0>>,
               TagBytes(2, <<>>, <<RawTitle>>, 0), TagBytes(5, <<>>, <<RawTitle>>, 4),
               Magic \o <<4, 0, 0, 0, 0, 0, 200>> \o Zeros(200)}
           \cup {BrokenTag(frames, last) \o audio :
                   frames \in RawTags, audio \in Audios,
                   last \in {OversizedFrame(RawTitle.id, DeclaredSize, MaxLeft),
                             OversizedFrame(RawPicture.id, 3, 2),
                             OversizedFrame(RawTitle.id, 1, 0),
                             \* an identifier in lower case
                             <<116, 105, 116, 50, 0, 0, 0, 0, 0, 0>>,
                             \* a size byte with bit 7 set
                             <<84, 73, 84, 50, 0, 0, 0, 129, 0, 0>> \o Zeros(129),
                             \* bytes that are neither padding nor a whole frame header
                             <<0, 0, 7>>, <<84, 73, 84, 50, 0, 0>>}}}

ReaderInputs == WellFormedInputs \cup BrokenInputs

InitReader ==
    /\ tag = NewTag
    /\ pre = NewTag
    /\ op = "new"
    /\ args = <<>>
    /\ ret = FALSE
    /\ nops = 0
    /\ file = NoFile
    /\ latest = NoLatest
    /\ stderr = NoMessage
    /\ steps = <<>>
    /\ writer = NoWriter
    /\ \E in \in ReaderInputs : reader = ReaderStart(in)

NextReader == ReadHeaderStep \/ ReadExtendedHeaderStep \/ ReadFramesStep

\* SpecReader: one read of each buffer.
SpecReader == InitReader /\ [][NextReader]_vars

\* The reader runs on until it ends: no step that is possible is put off for ever.
SpecReaderLive == SpecReader /\ WF_vars(NextReader)

\* The place of each phase in a read.
PhaseRank ==
    [Idle |-> 0, ReadHeader |-> 1, ReadExtendedHeader |-> 2, ReadFrames |-> 3,
     Done |-> 4, Error |-> 4]

\* C23: the reader is a linear single pass: ReadHeader, then ReadExtendedHeader
\* only when the header's flag is set, then ReadFrames, then Done, never going
\* back, the offset never going back either and every turn of ReadFrames
\* taking one frame; ReadFrames ends at the padding sentinel or when the
\* consumed bytes reach the declared size, so every read reaches Done or an
\* error; padding never produces a frame: a well-formed tag read to Done gives
\* exactly the frames it was built from, and fails only where fewer than four
\* bytes of padding are left.
C23_ReaderLinear ==
    /\ [][/\ PhaseRank[reader'.phase] >= PhaseRank[reader.phase]
          /\ reader.phase \in {"Done", "Error"} => reader' = reader
          /\ (reader.phase = "ReadHeader" /\ reader'.phase # "Error") =>
                (reader'.phase = IF HasExtendedHeader(reader.buf[6])
                                 THEN "ReadExtendedHeader" ELSE "ReadFrames")
          /\ reader.phase = "ReadExtendedHeader" => reader'.phase \in {"ReadFrames", "Error"}
          /\ reader'.offset >= reader.offset
          /\ (reader.phase = "ReadFrames" /\ reader'.phase = "ReadFrames") =>
                (reader'.offset >= reader.offset + 10
                 /\ Len(reader'.frames) = Len(reader.frames) + 1)]_vars
    /\ [](/\ \A i \in DOMAIN reader.frames : ~AllZero(reader.frames[i].id)
          /\ reader.phase = "Done" =>
                /\ reader.tag = Some(reader.frames)
                /\ reader.offset <= reader.stop
                /\ AllZero(Slice(reader.buf, reader.offset, reader.stop - reader.offset))
                /\ IsSome(reader.made) => reader.tag = reader.made
          /\ (reader.phase = "Error" /\ IsSome(reader.made)) =>
                reader.stop - reader.offset \in 1..3)
    /\ <>(reader.phase \in {"Done", "Error"})

\* A version 4 tag with an extended header, three frames and twelve bytes of
\* padding, read to Done with its three frames.
C23_Witness ==
    /\ reader.phase = "Done"
    /\ reader.buf[4] = 4 /\ HasExtendedHeader(reader.buf[6])
    /\ reader.tag = Some(<<RawEmpty, RawForeign, RawTitle>>)
    /\ reader.stop - reader.offset = 12
    /\ Len(reader.buf) > reader.stop


\* Whether the bytes at the reader's offset are the header of a frame that
\* declares more content than the tag has left.
DeclaresTooMuch(r) ==
    LET left == r.stop - r.offset
    IN /\ left >= 10
       /\ \A i \in 1..4 : IsIdChar(r.buf[r.offset + i])
       /\ \A i \in 5..8 : r.buf[r.offset + i] < 128
       /\ r.buf[r.offset + 5] * 2097152 + r.buf[r.offset + 6] * 16384
          + r.buf[r.offset + 7] * 128 + r.buf[r.offset + 8] > left - 10

\* C24: a frame whose declared content size exceeds the bytes left in the tag
\* (1000 declared with 50 left) makes the read fail with MalformedFrame, and a
\* read that fails yields no tag at all, whatever frames were decoded before.
C24_OversizedFrameFails ==
    [][/\ (reader.phase = "ReadFrames" /\ DeclaresTooMuch(reader)) =>
             (reader'.phase = "Error" /\ reader'.error = "MalformedFrame")
       /\ reader'.phase = "Error" => reader'.tag = None
       /\ IsSome(reader'.tag) => reader'.phase = "Done"]_vars

\* Three frames decoded, then a frame declaring 1000 bytes with 50 left: no tag.
C24_Witness ==
    /\ reader.phase = "Error" /\ reader.error = "MalformedFrame"
    /\ Len(reader.frames) = 3
    /\ DeclaresTooMuch(reader)
    /\ synchsafe_decode(Slice(reader.buf, reader.offset + 4, 4)).value = DeclaredSize
    /\ reader.stop - reader.offset - 10 = MaxLeft
    /\ reader.tag = None


-----------------------------------------------------------------------------
(* The tag writer: serialize into a buffer, then replace the file *)

\* The content length of a frame; a frame too large to spell out carries its
\* length in place of its bytes.
content_length(fr) == IF "length" \in DOMAIN fr THEN fr.length ELSE Len(fr.body)

\* The serialized lengths of the frames, summed: per frame a 10-byte header and the content.
RECURSIVE SumLengths(_)
SumLengths(frames) ==
    IF Len(frames) = 0 THEN 0
    ELSE 10 + content_length(Head(frames)) + SumLengths(Tail(frames))

\* The tag region taken to be the size field alone, without the 10-byte header.
tag_region_SizeOnly(b) ==
    LET h == ReadHeader(ReaderStart([buf |-> b, made |-> None]))
    IN IF \E r \in h : r.phase = "Error" THEN 0
       ELSE (CHOOSE r \in h : TRUE).stop - 10

\* The length of the leading tag region of a file's bytes, as the reader's
\* header step gives it (header included), 0 when the file has no tag.
tag_region(b) ==
    LET h == ReadHeader(ReaderStart([buf |-> b, made |-> None]))
    IN IF \E r \in h : r.phase = "Error" THEN 0
       ELSE (CHOOSE r \in h : TRUE).stop

\* Every byte of b after the first n.
BytesAfter(b, n) == SubSeq(b, n + 1, Len(b))

\* The writer about to write the frames of an input over its bytes on disk.
\* original and audio: the bytes on disk at the start and the part of them
\* behind the tag, as the input was built.
WriterStart(in) ==
    [phase |-> "Serialize", disk |-> in.disk, original |-> in.disk, audio |-> in.audio,
     frames |-> in.frames, buffer |-> <<>>, error |-> ""]

\* The writer's first step: the sizes, then the whole new content in a buffer
\* (header with version 4.0 and flags zero, the frames in order, the bytes
\* that followed the original tag); a size that cannot be encoded fails here.
SerializeTag(w) ==
    LET size == SumLengths(w.frames)
    IN IF (\E i \in DOMAIN w.frames : ~synchsafe_encode(content_length(w.frames[i])).ok)
          \/ ~synchsafe_encode(size).ok
       THEN {[w EXCEPT !.phase = "Failed", !.error = "SizeFailure"]}
       ELSE {[w EXCEPT !.phase = "Replace",
                       !.buffer = HeaderBytes(4, 0, size) \o FramesBytes(w.frames)
                                  \o BytesAfter(w.original, tag_region(w.original))]}

\* The write-to-path operation writing the buffer over the file from its start,
\* and stopping after the header when it fails.
ReplaceFile_InPlace(w) ==
    {[w EXCEPT !.phase = "Done", !.disk = w.buffer],
     [w EXCEPT !.phase = "Failed", !.error = "IoFailure",
               !.disk = SubSeq(w.buffer, 1, 10) \o SubSeq(@, 11, Len(@))]}

\* The write-to-path operation: the buffer replaces the file in one step, or
\* the operation fails with IoFailure and the file is as it was.
ReplaceFile(w) ==
    {[w EXCEPT !.phase = "Done", !.disk = w.buffer],
     [w EXCEPT !.phase = "Failed", !.error = "IoFailure"]}

SerializeTagStep ==
    /\ writer.phase = "Serialize"
    /\ writer' \in SerializeTag(writer)
    /\ UNCHANGED <<tag, pre, op, args, ret, nops, file, latest, stderr, steps, reader>>

ReplaceFileStep ==
    /\ writer.phase = "Replace"
    /\ writer' \in ReplaceFile(writer)
    /\ UNCHANGED <<tag, pre, op, args, ret, nops, file, latest, stderr, steps, reader>>

(* The files written and the tags written over them *)

\* A picture of 0x0FFFFFFF bytes: with its header it is beyond the largest tag size.
RawLargest ==
    [id |-> <<65, 80, 73, 67>>, flags |-> <<0, 0>>, body |-> <<>>, length |-> SynchsafeMax]

\* A picture of half that size: two of them are beyond the largest tag size.
RawHalf ==
    [id |-> <<65, 80, 73, 67>>, flags |-> <<0, 0>>, body |-> <<>>,
     length |-> SynchsafeMax \div 2]

\* A picture with more content than a frame's size field holds.
RawBeyond ==
    [id |-> <<65, 80, 73, 67>>, flags |-> <<0, 0>>, body |-> <<>>,
     length |-> SynchsafeMax + 1]

TooLargeTags == {<<RawLargest>>, <<RawTitle, RawHalf, RawHalf>>, <<RawBeyond>>}

\* The tag regions of the files written: none, or a tag with or without an
\* extended header and padding.
DiskTags ==
    {<<>>}
    \cup {TagBytes(major, ext, frames, padding) :
            major \in {3, 4}, ext \in ExtendedHeaders,
            frames \in {<<>>, <<RawTitle>>, <<RawPicture, RawForeign>>},
            padding \in {0, 3, 12}}

WriterInputs ==
    {[disk |-> t \o audio, audio |-> audio, frames |-> frames] :
        t \in DiskTags, audio \in Audios, frames \in RawTags \cup TooLargeTags}

InitWriter ==
    /\ tag = NewTag
    /\ pre = NewTag
    /\ op = "new"
    /\ args = <<>>
    /\ ret = FALSE
    /\ nops = 0
    /\ file = NoFile
    /\ latest = NoLatest
    /\ stderr = NoMessage
    /\ steps = <<>>
    /\ reader = NoReader
    /\ \E in \in WriterInputs : writer = WriterStart(in)

NextWriter == SerializeTagStep \/ ReplaceFileStep

\* SpecWriter: one write of each tag over each file.
SpecWriter == InitWriter /\ [][NextWriter]_vars

\* The whole new content of a file: the new tag, then the audio.
NewContent(frames, audio) ==
    HeaderBytes(4, 0, Len(FramesBytes(frames))) \o FramesBytes(frames) \o audio

\* C25: writing replaces only the leading tag region of the file (0 bytes when
\* it had no tag): after the write the file is the new tag (a 10-byte header
\* and the frames in order) followed by every byte that followed the original
\* tag, unchanged and in order, and by nothing else.
C25_TrailingBytesKept ==
    writer.phase = "Done" =>
        /\ writer.disk = NewContent(writer.frames, writer.audio)
        /\ SubSeq(writer.disk, Len(writer.disk) - Len(writer.audio) + 1, Len(writer.disk))
           = writer.audio
        /\ tag_region(writer.disk) = Len(writer.disk) - Len(writer.audio)

\* A version 3 tag with an extended header and padding, in front of audio that
\* starts with zero bytes, replaced by a tag of two frames.
C25_Witness ==
    /\ writer.phase = "Done"
    /\ tag_region(writer.original) = 10 + 6 + 12 + 12
    /\ writer.original[4] = 3 /\ HasExtendedHeader(writer.original[6])
    /\ writer.audio = <<0, 0, 0, 0, 255, 251>>
    /\ writer.frames = <<RawPicture, RawTitle>>
    /\ writer.disk # writer.original

\* A file without a tag: the new tag is put in front of all its bytes.
C25_WitnessNoTag ==
    /\ writer.phase = "Done"
    /\ writer.original = <<255, 251, 0, 0>>
    /\ writer.disk = NewContent(<<RawTitle>>, writer.original)

\* C26: a failed write never leaves a partially overwritten file: a size that
\* cannot be encoded is found before any byte is written (nothing is in the
\* buffer and the file is as it was), a failure of the write operation leaves
\* the file as it was, and at every moment the file holds its complete
\* original content or the complete new content.
C26_NoPartialWrite ==
    /\ writer.phase # "Idle" =>
          \/ writer.disk = writer.original
          \/ (writer.phase = "Done"
              /\ writer.disk = NewContent(writer.frames, writer.audio))
    /\ writer.phase = "Failed" =>
          /\ writer.disk = writer.original
          /\ writer.error \in {"SizeFailure", "IoFailure"}
          /\ writer.error = "SizeFailure" <=> writer.buffer = <<>>
          /\ writer.error = "SizeFailure" <=> SumLengths(writer.frames) > SynchsafeMax

\* The write operation failed with the new content ready in the buffer: the
\* tagged file is as it was.
C26_Witness ==
    /\ writer.phase = "Failed" /\ writer.error = "IoFailure"
    /\ writer.buffer = NewContent(writer.frames, writer.audio)
    /\ writer.buffer # writer.original
    /\ tag_region(writer.original) > 0
    /\ writer.disk = writer.original

\* Two pictures whose sizes add up beyond the largest tag size: nothing written.
C26_WitnessTooLarge ==
    /\ writer.phase = "Failed" /\ writer.error = "SizeFailure"
    /\ writer.frames = <<RawTitle, RawHalf, RawHalf>>
    /\ writer.buffer = <<>>
    /\ writer.disk = writer.original
=============================================================================
